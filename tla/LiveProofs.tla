----------------------------- MODULE LiveProofs -----------------------------
(***************************************************************************)
(* Proofs about what agents share and say: the document cache of awf/llm,  *)
(* the registry of live sessions, the reduction of a CLI's stream to a     *)
(* result, and the client of the codex app-server, for any number of       *)
(* launches, documents, lines, events, servers, crashes and failures.      *)
(***************************************************************************)
EXTENDS LiveSession, GeminiCache, AgentAdapters, CodexClient, FiniteSetTheorems, TLAPS

-----------------------------------------------------------------------------
(* The document cache.                                                     *)

CacheTypes ==
    /\ created \in Nat
    /\ gpc \in [Launches -> {"idle", "probe", "evict", "lock", "create"}]
    /\ name \in [Launches -> Nat]

\* what the provider keeps was created, and what the map names too: a number
\* that is gone never comes back
KeptWasCreated == \A n \in DOMAIN kept : n \in Nat /\ 0 < n /\ n <= created
NamedWasCreated ==
    \A k \in DOMAIN names : /\ names[k] \in Nat /\ names[k] <= created
                            /\ names[k] \in DOMAIN kept => kept[names[k]] = k
\* the map knows every content whose name was not lost
KeptIsNamed == \A n \in DOMAIN kept \ lost : kept[n] \in DOMAIN names /\ names[kept[n]] = n
\* what a launch holds is of its own document
HeldName ==
    \A l \in Launches : name[l] <= created /\ (name[l] \in DOMAIN kept => kept[name[l]] = Document[l])
\* an entry is evicted behind a probe that found nothing
EvictIsSafe == \A l \in Launches : gpc[l] = "evict" => name[l] \notin DOMAIN kept
\* a create holds the write lock, over a map without its key
CreateIsLocked == \A l \in Launches : gpc[l] = "create" => locked = l /\ Document[l] \notin DOMAIN names

CacheInv ==
    /\ CacheTypes /\ KeptWasCreated /\ NamedWasCreated /\ KeptIsNamed
    /\ HeldName /\ EvictIsSafe /\ CreateIsLocked

USE DEF geminiCacheKey, Go, Error

LEMMA CacheInitInv == CacheInit => CacheInv
BY DEF CacheInit, CacheInv, CacheTypes, KeptWasCreated, NamedWasCreated, KeptIsNamed,
       HeldName, EvictIsSafe, CreateIsLocked

\* the steps that leave the provider and the map alone
LEMMA CacheReadInv ==
    ASSUME CacheInv, NEW l \in Launches, Lookup(l) \/ Probe(l) \/ Lock(l)
    PROVE  CacheInv'
<1>1. CASE Lookup(l)
  <2>1. UNCHANGED <<lost, names, locked, kept, created>>
    BY <1>1 DEF Lookup
  <2>2. /\ gpc' \in {[gpc EXCEPT ![l] = "probe"], [gpc EXCEPT ![l] = "lock"]}
        /\ \E n \in Nat : /\ name' = [name EXCEPT ![l] = n] /\ n <= created
                          /\ n \in DOMAIN kept => kept[n] = Document[l]
    BY <1>1 DEF Lookup, CacheInv, CacheTypes, KeptWasCreated, NamedWasCreated
  <2>3. QED
    BY <2>1, <2>2 DEF CacheInv, CacheTypes, KeptWasCreated, NamedWasCreated,
       KeptIsNamed, HeldName, EvictIsSafe, CreateIsLocked
<1>2. CASE Probe(l)
  BY <1>2 DEF Probe, CacheInv, CacheTypes, KeptWasCreated, NamedWasCreated,
       KeptIsNamed, HeldName, EvictIsSafe, CreateIsLocked
<1>3. CASE Lock(l)
  BY <1>3, CacheAssumption DEF Lock, CacheInv, CacheTypes, KeptWasCreated, NamedWasCreated,
       KeptIsNamed, HeldName, EvictIsSafe, CreateIsLocked
<1>4. QED BY <1>1, <1>2, <1>3

LEMMA EvictInv ==
    ASSUME CacheInv, NEW l \in Launches, Evict(l)
    PROVE  CacheInv'
<1>1. CASE UNCHANGED names
  BY <1>1 DEF Evict, CacheInv, CacheTypes, KeptWasCreated, NamedWasCreated,
       KeptIsNamed, HeldName, EvictIsSafe, CreateIsLocked
<1>2. CASE ~UNCHANGED names
  <2>1. /\ names[Document[l]] = name[l] /\ name[l] \notin DOMAIN kept
        /\ names' = [k \in DOMAIN names \ {Document[l]} |-> names[k]]
    BY <1>2 DEF Evict, Restrict, CacheInv, EvictIsSafe
  <2>2. UNCHANGED <<lost, locked, kept, created, name>> /\ gpc' = [gpc EXCEPT ![l] = "lock"]
    BY DEF Evict
  <2>3. CacheTypes' /\ KeptWasCreated' /\ HeldName' /\ EvictIsSafe' /\ CreateIsLocked' /\ NamedWasCreated'
    BY <2>1, <2>2 DEF CacheInv, CacheTypes, KeptWasCreated, NamedWasCreated, HeldName, EvictIsSafe, CreateIsLocked
  <2>4. KeptIsNamed'
    BY <2>1, <2>2 DEF CacheInv, KeptIsNamed
  <2>5. QED BY <2>3, <2>4 DEF CacheInv
<1>3. QED BY <1>1, <1>2

LEMMA CreateInv ==
    ASSUME CacheInv, NEW l \in Launches, Create(l)
    PROVE  CacheInv'
<1>1. /\ created \in Nat /\ created + 1 \notin DOMAIN kept /\ created + 1 # created
      /\ \A k \in DOMAIN names : names[k] # created + 1
      /\ Document[l] \notin DOMAIN names /\ locked = l
      /\ locked' = "none" /\ gpc' = [gpc EXCEPT ![l] = "idle"]
      /\ \A m \in Launches : gpc'[m] # "create"
  BY DEF Create, CacheInv, CacheTypes, KeptWasCreated, NamedWasCreated, CreateIsLocked
<1>2. CASE UNCHANGED <<created, kept, lost, names, name>>
  BY <1>1, <1>2 DEF CacheInv, CacheTypes, KeptWasCreated, NamedWasCreated,
       KeptIsNamed, HeldName, EvictIsSafe, CreateIsLocked
<1>3. CASE /\ created' = created + 1 /\ kept' = Made(Document[l])
           /\ lost' = lost \cup {created + 1} /\ UNCHANGED <<names, name>>
  <2>1. CacheTypes' /\ KeptWasCreated' /\ NamedWasCreated' /\ CreateIsLocked'
    BY <1>1, <1>3 DEF Made, CacheInv, CacheTypes, KeptWasCreated, NamedWasCreated, CreateIsLocked
  <2>2. HeldName' /\ EvictIsSafe'
    BY <1>1, <1>3 DEF Made, CacheInv, CacheTypes, HeldName, EvictIsSafe
  <2>3. KeptIsNamed'
    BY <1>1, <1>3 DEF Made, CacheInv, KeptIsNamed
  <2>4. QED BY <2>1, <2>2, <2>3 DEF CacheInv
<1>4. CASE /\ created' = created + 1 /\ kept' = Made(Document[l]) /\ UNCHANGED lost
           /\ names' = [k \in DOMAIN names \cup {Document[l]} |-> IF k = Document[l] THEN created + 1 ELSE names[k]]
           /\ name' = [name EXCEPT ![l] = created + 1]
  <2>1. CacheTypes' /\ KeptWasCreated' /\ CreateIsLocked'
    BY <1>1, <1>4 DEF Made, CacheInv, CacheTypes, KeptWasCreated, CreateIsLocked
  <2>2. NamedWasCreated'
    BY <1>1, <1>4 DEF Made, CacheInv, NamedWasCreated
  <2>3. HeldName' /\ EvictIsSafe'
    BY <1>1, <1>4 DEF Made, CacheInv, CacheTypes, HeldName, EvictIsSafe
  <2>4. KeptIsNamed'
    BY <1>1, <1>4 DEF Made, CacheInv, KeptIsNamed
  <2>5. QED BY <2>1, <2>2, <2>3, <2>4 DEF CacheInv
<1>5. QED BY <1>2, <1>3, <1>4 DEF Create

LEMMA ExpireInv ==
    ASSUME CacheInv, Expire
    PROVE  CacheInv'
<1>1. PICK n \in DOMAIN kept : kept' = [m \in DOMAIN kept \ {n} |-> kept[m]]
  BY DEF Expire, Restrict
<1>2. UNCHANGED <<lost, names, locked, created, gpc, name>>
  BY DEF Expire
<1>3. QED
  BY <1>1, <1>2 DEF CacheInv, CacheTypes, KeptWasCreated, NamedWasCreated,
       KeptIsNamed, HeldName, EvictIsSafe, CreateIsLocked

LEMMA CacheNextInv == CacheInv /\ [CacheNext]_cacheVars => CacheInv'
<1>1. SUFFICES ASSUME CacheInv, [CacheNext]_cacheVars PROVE CacheInv'
  OBVIOUS
<1>2. CASE UNCHANGED cacheVars
  BY <1>1, <1>2 DEF cacheVars, CacheInv, CacheTypes, KeptWasCreated, NamedWasCreated,
       KeptIsNamed, HeldName, EvictIsSafe, CreateIsLocked
<1>3. CASE CacheNext
  BY <1>1, <1>3, CacheReadInv, EvictInv, CreateInv, ExpireInv DEF CacheNext, CacheStep
<1>4. QED BY <1>1, <1>2, <1>3

LEMMA CacheInvSafe == CacheInv => CacheSafe
BY DEF CacheInv, CacheSafe, UploadedOnce, NamesMatch, KeptIsNamed, HeldName

\* A document is uploaded once while its content lives, and no launch of
\* ensureGeminiCache is given the content of another document, for any number
\* of launches, documents, expiries and failed requests.
THEOREM CacheIsSafe == CacheSpec => []CacheSafe
<1>1. CacheSpec => []CacheInv
  BY CacheInitInv, CacheNextInv, PTL DEF CacheSpec
<1>2. QED BY <1>1, CacheInvSafe, PTL

-----------------------------------------------------------------------------
(* The live registry.  The invariant speaks of the files and, launch by    *)
(* launch, of what its program position promises about them.               *)

Turns == {NoTurn} \cup [owner : Launchers, epoch : Nat, attempt : Nat, phase : {"intent", "started"}]
Found == [path : Paths, version : Versions]
Records == [binary : Paths \cup {"none"}, version : Versions \cup {"none"}, active : Turns, last : Turns]
KnownRecords == [info : Found, binary : Paths \cup {"none"}, active : Turns, last : Turns]
Leases == [owner : Launchers \cup {"none"}, epoch : Nat, stale : BOOLEAN]
Preparing == {"abandon", "resume thread", "start thread", "write back"}
\* a launch that has asked the provider for its turn
Asked == {"read mark", "mark", "drain", "commit", "read final", "finalize"}
\* a launch between its lease and the end of its finalizer
Driving == UnderLease \cup {"commit", "read final", "finalize"}

RegistryTypes ==
    /\ session \in Records /\ lease \in Leases /\ binary \in Found
    /\ pc \in [Launchers -> Labels] /\ attempt \in [Launchers -> 0 .. MaxAttempts]
    /\ epoch \in [Launchers -> 1 .. MaxEpochs]
    /\ copy \in [Launchers -> Records \cup KnownRecords]
    /\ committed \subseteq Launchers /\ faults \in 0 .. MaxFaults
    /\ asked \subseteq Launchers \X Nat \X Nat

\* what a copy of the record says was committed was
LastCommitted(rec) == rec.last # NoTurn => rec.last.owner \in committed

\* a turn is on record, or accounted for
Marked(t) ==
    \/ session.active # NoTurn /\ Key(session.active) = t
    \/ t[1] \in committed
    \/ \E d \in dropped : d[1] = t /\ d[2] \in {"recovery", "write back", "intent"}

CopyTyped(l) == copy[l] \in IF pc[l] \in Preparing THEN KnownRecords ELSE Records
\* the lease is held to the end of the finalizer, not just of the turn
LeaseHeld(l) == pc[l] \in Driving => Owns(l)
FinalizedIsCommitted(l) == pc[l] \in {"read final", "finalize"} => l \in committed
\* there is a record, with a binary, from the write back on
RecordExists(l) == pc[l] \in Driving \cup {"abandon", "acquire"} => session.binary # "none"
\* a copy read under the lease has the binary of the record, and nobody puts
\* another turn on the record before it is written back
CopyIsCurrent(l) ==
    pc[l] \in {"write intent", "clear", "mark", "finalize"} =>
        copy[l].binary = session.binary /\ session.active \in {NoTurn, copy[l].active}
\* until the provider has answered the record holds the intent of the launch, or nothing
IntentOnRecord(l) ==
    pc[l] \in {"start turn", "read clear", "clear"} => session.active \in {NoTurn, Turn(l, "intent")}
\* no turn is asked for twice: those asked for are of earlier epochs, of earlier
\* attempts, or the one the launch is in
AskedBefore(l) ==
    \A t \in asked : t[1] = l =>
        /\ t[2] <= epoch[l]
        /\ t[2] = epoch[l] => \/ pc[l] \in {"failed", "halted", "dead", "done"}
                              \/ t[3] < attempt[l] /\ pc[l] # "begin"
                              \/ t[3] = attempt[l] /\ pc[l] \in Asked
\* the turn is marked before the provider is asked for it
MarkedBefore(l) == pc[l] = "start turn" => Marked(<<l, epoch[l], attempt[l]>>)

LaunchInv(l) ==
    /\ CopyTyped(l) /\ LeaseHeld(l) /\ FinalizedIsCommitted(l) /\ LastCommitted(copy[l]) /\ RecordExists(l)
    /\ CopyIsCurrent(l) /\ IntentOnRecord(l) /\ AskedBefore(l) /\ MarkedBefore(l)
FilesInv ==
    /\ RegistryTypes
    /\ LastCommitted(session)
    /\ session.binary = "none" => session = NoSession
    /\ \A t \in asked : Marked(t)
RegistryInv == FilesInv /\ \A l \in Launchers : LaunchInv(l)

LEMMA RecordFacts ==
    /\ NoTurn \in Turns /\ NoSession \in Records /\ NoLease \in Leases
    /\ NoSession.binary = "none" /\ NoSession.active = NoTurn /\ NoSession.last = NoTurn
    /\ NoTurn.owner = "none" /\ NoLease.owner = "none"
BY DEF NoTurn, NoSession, NoLease, Turns, Records, Leases

LEMMA LiveInitInv == LiveInit => RegistryInv
<1>1. SUFFICES ASSUME LiveInit PROVE FilesInv /\ \A l \in Launchers : LaunchInv(l)
  BY DEF RegistryInv
<1>2. FilesInv
  BY <1>1, LiveAssumption, RecordFacts DEF LiveInit, FilesInv, RegistryTypes, Found, LastCommitted, Labels, Resting
<1>3. ASSUME NEW l \in Launchers PROVE LaunchInv(l)
  BY <1>1, <1>3, LiveAssumption, RecordFacts
     DEF LiveInit, LaunchInv, CopyTyped, Preparing, LeaseHeld, Driving, UnderLease, FinalizedIsCommitted,
         LastCommitted, RecordExists, CopyIsCurrent, IntentOnRecord, AskedBefore, MarkedBefore
<1>4. QED BY <1>2, <1>3

\* a write marks the turn it takes off the record, but for the two that only
\* take what is theirs
LEMMA MarkKept ==
    ASSUME NEW rec, NEW how, NEW t, NEW l, Write(l, rec, how), session.active \in Turns, Marked(t),
           committed \subseteq committed'
    PROVE  \/ Marked(t)'
           \/ /\ how \notin {"recovery", "write back", "intent"}
              /\ session.active # NoTurn /\ Key(session.active) = t
<1>1. CASE session.active # NoTurn /\ Key(session.active) = t
  <2>1. session.active.owner \in Launchers /\ t[1] = session.active.owner
    BY <1>1 DEF Turns, Key
  <2>2. CASE Key(rec.active) = t
    <3>1. rec.active # NoTurn
      BY <2>1, <2>2, LiveAssumption DEF Key, NoTurn
    <3>2. QED BY <2>2, <3>1 DEF Write, Marked
  <2>3. CASE Key(rec.active) # t /\ session.active.owner \in committed
    BY <2>1, <2>3 DEF Marked
  <2>4. CASE Key(rec.active) # t /\ session.active.owner \notin committed
    <3>1. <<t, how, l>> \in dropped'
      BY <1>1, <2>4 DEF Write
    <3>2. <<t, how, l>>[1] = t /\ <<t, how, l>>[2] = how
      OBVIOUS
    <3>3. QED BY <1>1, <3>1, <3>2 DEF Marked
  <2>5. QED BY <2>2, <2>3, <2>4
<1>2. CASE t[1] \in committed
  BY <1>2 DEF Marked
<1>3. CASE \E d \in dropped : d[1] = t /\ d[2] \in {"recovery", "write back", "intent"}
  BY <1>3 DEF Marked, Write
<1>4. QED BY <1>1, <1>2, <1>3 DEF Marked

\* what a step of one launch has to leave alone for the others
LEMMA OthersKept ==
    ASSUME NEW m \in Launchers, LaunchInv(m), lease \in Leases,
           pc'[m] = pc[m], copy'[m] = copy[m], attempt'[m] = attempt[m], epoch'[m] = epoch[m],
           committed \subseteq committed',
           \A t \in asked' : t \in asked \/ t[1] # m,
           lease.owner = m => lease'.owner = m /\ lease'.epoch = lease.epoch,
           session.binary # "none" => session'.binary = session.binary,
           pc[m] \in Driving => session'.active \in {NoTurn, session.active},
           pc[m] = "start turn" /\ Marked(<<m, epoch[m], attempt[m]>>) => Marked(<<m, epoch[m], attempt[m]>>)'
    PROVE  LaunchInv(m)'
<1>1. CopyTyped(m)' /\ FinalizedIsCommitted(m)' /\ LastCommitted(copy[m])' /\ AskedBefore(m)'
  BY DEF LaunchInv, CopyTyped, FinalizedIsCommitted, LastCommitted, AskedBefore
<1>2. LeaseHeld(m)' /\ RecordExists(m)'
  BY DEF LaunchInv, LeaseHeld, RecordExists, Owns
<1>3. CopyIsCurrent(m)' /\ IntentOnRecord(m)'
  BY DEF LaunchInv, CopyIsCurrent, IntentOnRecord, Turn, RecordExists, Driving, UnderLease
<1>4. MarkedBefore(m)'
  BY DEF LaunchInv, MarkedBefore
<1>5. QED BY <1>1, <1>2, <1>3, <1>4 DEF LaunchInv

\* the local state of the other launches
OthersRest(l) == \A m \in Launchers \ {l} :
    pc'[m] = pc[m] /\ copy'[m] = copy[m] /\ attempt'[m] = attempt[m] /\ epoch'[m] = epoch[m]
\* the lease of the others
OthersLease(l) == \A m \in Launchers \ {l} : lease.owner = m => lease'.owner = m /\ lease'.epoch = lease.epoch

\* a step that leaves the record alone
LEMMA QuietStep ==
    ASSUME RegistryInv, NEW l \in Launchers, UNCHANGED <<session, dropped, asked>>,
           committed \subseteq committed', RegistryTypes', OthersRest(l), OthersLease(l), LaunchInv(l)'
    PROVE  RegistryInv'
<1>1. FilesInv'
  BY DEF RegistryInv, FilesInv, LastCommitted, Marked
<1>2. ASSUME NEW m \in Launchers, m # l PROVE LaunchInv(m)'
  <2>1. Marked(<<m, epoch[m], attempt[m]>>) => Marked(<<m, epoch[m], attempt[m]>>)'
    BY <1>2 DEF Marked, OthersRest
  <2>2. QED
    BY <1>2, <2>1, OthersKept DEF RegistryInv, FilesInv, RegistryTypes, OthersRest, OthersLease
<1>3. QED BY <1>1, <1>2 DEF RegistryInv

\* a launch that is given up, with nothing asked for but its own turn
LEMMA GivenUp ==
    ASSUME RegistryInv, NEW l \in Launchers, epoch' = epoch, committed' = committed, copy'[l] = NoSession,
           \A t \in asked' : t \in asked \/ t = <<l, epoch[l], attempt[l]>>,
           \/ pc'[l] \in {"failed", "halted", "dead", "done"}
           \/ pc'[l] = "launch" /\ attempt'[l] = attempt[l] + 1 /\ pc[l] \notin Resting
    PROVE  LaunchInv(l)'
<1>1. /\ epoch[l] \in Nat /\ attempt[l] \in Nat /\ asked \subseteq Launchers \X Nat \X Nat
  BY DEF RegistryInv, FilesInv, RegistryTypes
<1>2. CopyTyped(l)' /\ LastCommitted(copy[l])'
  BY RecordFacts DEF CopyTyped, LastCommitted, Preparing
<1>3. LeaseHeld(l)' /\ FinalizedIsCommitted(l)' /\ RecordExists(l)' /\ CopyIsCurrent(l)' /\ IntentOnRecord(l)' /\ MarkedBefore(l)'
  BY DEF LeaseHeld, Driving, UnderLease, FinalizedIsCommitted, RecordExists, CopyIsCurrent, IntentOnRecord, MarkedBefore
<1>4. AskedBefore(l)'
  <2>1. SUFFICES ASSUME NEW t \in asked', t[1] = l
                 PROVE  /\ t[2] <= epoch[l]
                        /\ t[2] = epoch[l] => pc'[l] \in {"failed", "halted", "dead", "done"} \/ t[3] < attempt'[l]
    BY DEF AskedBefore
  <2>2. CASE t = <<l, epoch[l], attempt[l]>>
    BY <1>1, <2>2
  <2>3. CASE t \in asked
    <3>1. t[2] \in Nat /\ t[3] \in Nat
      BY <1>1, <2>3
    <3>2. AskedBefore(l)
      BY DEF RegistryInv, LaunchInv
    <3>3. QED BY <1>1, <2>1, <2>3, <3>1, <3>2 DEF AskedBefore, Resting
  <2>4. QED BY <2>1, <2>2, <2>3
<1>5. QED BY <1>2, <1>3, <1>4 DEF LaunchInv

LEMMA GiveUpEffect ==
    ASSUME RegistryTypes, NEW l \in Launchers, GiveUp(l)
    PROVE  /\ pc' \in [Launchers -> Labels] /\ attempt' \in [Launchers -> 0 .. MaxAttempts]
           /\ copy' \in [Launchers -> Records \cup KnownRecords] /\ copy'[l] = NoSession
           /\ pc'[l] = "failed" \/ (pc'[l] = "launch" /\ attempt'[l] = attempt[l] + 1)
           /\ \A m \in Launchers \ {l} : pc'[m] = pc[m] /\ copy'[m] = copy[m] /\ attempt'[m] = attempt[m]
<1>1. pc' \in [Launchers -> Labels] /\ copy' \in [Launchers -> Records \cup KnownRecords]
  BY RecordFacts DEF GiveUp, RegistryTypes, Labels, Resting
<1>2. attempt' \in [Launchers -> 0 .. MaxAttempts]
  <2>1. (IF attempt[l] < MaxAttempts THEN attempt[l] + 1 ELSE 0) \in 0 .. MaxAttempts
    BY LiveAssumption DEF RegistryTypes
  <2>2. QED BY <2>1 DEF GiveUp, RegistryTypes
<1>3. QED BY <1>1, <1>2 DEF GiveUp, RegistryTypes

LEMMA HaltEffect ==
    ASSUME RegistryTypes, NEW l \in Launchers, NEW x \in {"failed", "halted", "dead", "done"}, Goto(l, x),
           attempt' = [attempt EXCEPT ![l] = 0], copy' = [copy EXCEPT ![l] = NoSession]
    PROVE  /\ pc' \in [Launchers -> Labels] /\ attempt' \in [Launchers -> 0 .. MaxAttempts]
           /\ copy' \in [Launchers -> Records \cup KnownRecords] /\ copy'[l] = NoSession /\ pc'[l] = x
           /\ \A m \in Launchers \ {l} : pc'[m] = pc[m] /\ copy'[m] = copy[m] /\ attempt'[m] = attempt[m]
<1>1. pc' \in [Launchers -> Labels] /\ copy' \in [Launchers -> Records \cup KnownRecords]
  BY RecordFacts DEF Goto, RegistryTypes, Labels, Resting
<1>2. attempt' \in [Launchers -> 0 .. MaxAttempts]
  BY LiveAssumption DEF RegistryTypes
<1>3. QED BY <1>1, <1>2 DEF Goto, RegistryTypes

LEMMA Bounds == 0 \in 0 .. MaxAttempts /\ 1 \in 0 .. MaxAttempts
BY LiveAssumption

LEMMA FaultEffect ==
    ASSUME RegistryInv, Fault \/ UNCHANGED faults
    PROVE  faults' \in 0 .. MaxFaults
<1>1. faults \in 0 .. MaxFaults /\ MaxFaults \in Nat
  BY LiveAssumption DEF RegistryInv, FilesInv, RegistryTypes
<1>2. QED BY <1>1 DEF Fault

LEMMA QuietGiveUp ==
    ASSUME RegistryInv, NEW l \in Launchers, pc[l] \notin Resting, GiveUp(l) \/ Halt(l),
           UNCHANGED <<session, binary, epoch, committed, asked, dropped>>,
           faults' \in 0 .. MaxFaults, lease' \in Leases, OthersLease(l)
    PROVE  RegistryInv'
<1>1. RegistryTypes /\ epoch \in [Launchers -> 1 .. MaxEpochs]
  BY DEF RegistryInv, FilesInv, RegistryTypes
<1>2. RegistryTypes' /\ OthersRest(l)
  BY <1>1, GiveUpEffect, HaltEffect DEF Halt, RegistryTypes, OthersRest
<1>3. LaunchInv(l)'
  BY <1>1, GiveUpEffect, HaltEffect, GivenUp DEF Halt
<1>4. QED BY <1>2, <1>3, QuietStep

LEMMA BeginInv ==
    ASSUME RegistryInv, NEW l \in Launchers, Begin(l)
    PROVE  RegistryInv'
<1>1. pc' = [pc EXCEPT ![l] = "launch"] /\ attempt' = [attempt EXCEPT ![l] = 1] /\ pc[l] = "begin"
  BY DEF Begin, Goto
<1>2. UNCHANGED <<session, lease, binary, copy, epoch, committed, faults, asked, dropped>>
  BY DEF Begin
<1>3. RegistryTypes' /\ OthersRest(l) /\ OthersLease(l)
  BY <1>1, <1>2, Bounds DEF RegistryInv, FilesInv, RegistryTypes, Labels, OthersRest, OthersLease
<1>4. LaunchInv(l)'
  <2>1. pc'[l] = "launch" /\ LaunchInv(l)
    BY <1>1 DEF RegistryInv, FilesInv, RegistryTypes
  <2>2. CopyTyped(l)' /\ LastCommitted(copy[l])'
    BY <1>1, <1>2, <2>1 DEF LaunchInv, CopyTyped, LastCommitted, Preparing
  <2>3. LeaseHeld(l)' /\ FinalizedIsCommitted(l)' /\ RecordExists(l)' /\ CopyIsCurrent(l)' /\ IntentOnRecord(l)' /\ MarkedBefore(l)'
    BY <2>1 DEF LeaseHeld, Driving, UnderLease, FinalizedIsCommitted, RecordExists, CopyIsCurrent, IntentOnRecord, MarkedBefore
  <2>4. AskedBefore(l)'
    BY <1>1, <1>2, <2>1 DEF LaunchInv, AskedBefore, Asked
  <2>5. QED BY <2>2, <2>3, <2>4 DEF LaunchInv
<1>5. QED BY <1>2, <1>3, <1>4, QuietStep

LEMMA PrepareInv ==
    ASSUME RegistryInv, NEW l \in Launchers, Prepare(l)
    PROVE  RegistryInv'
<1>1. CASE Halt(l)
  BY <1>1, QuietGiveUp DEF Prepare, Resting, RegistryInv, FilesInv, RegistryTypes, OthersLease
<1>2. CASE ~Halt(l)
  <2>1. PICK x \in {"abandon", "start thread", "resume thread"} :
          /\ pc' = [pc EXCEPT ![l] = x] /\ copy' = [copy EXCEPT ![l] = Known]
          /\ x = "abandon" => session.active # NoTurn
    BY <1>2 DEF Prepare, Goto
  <2>2. UNCHANGED <<session, lease, binary, attempt, epoch, committed, faults, asked, dropped>> /\ pc[l] = "launch"
    BY <1>2 DEF Prepare
  <2>3. Known \in KnownRecords /\ Known.last = session.last
    BY DEF Known, KnownRecords, Records, RegistryInv, FilesInv, RegistryTypes
  <2>4. RegistryTypes' /\ OthersRest(l) /\ OthersLease(l)
    BY <2>1, <2>2, <2>3 DEF RegistryInv, FilesInv, RegistryTypes, Labels, OthersRest, OthersLease
  <2>5. LaunchInv(l)'
    <3>1. pc'[l] = x /\ copy'[l] = Known /\ LaunchInv(l)
      BY <2>1 DEF RegistryInv, FilesInv, RegistryTypes
    <3>2. CopyTyped(l)' /\ LastCommitted(copy[l])'
      BY <2>2, <2>3, <3>1 DEF RegistryInv, FilesInv, LastCommitted, CopyTyped, Preparing
    <3>3. LeaseHeld(l)' /\ FinalizedIsCommitted(l)' /\ CopyIsCurrent(l)' /\ IntentOnRecord(l)' /\ MarkedBefore(l)'
      BY <3>1 DEF LeaseHeld, Driving, UnderLease, FinalizedIsCommitted, CopyIsCurrent, IntentOnRecord, MarkedBefore
    <3>4. RecordExists(l)'
      <4>1. x = "abandon" => session.binary # "none"
        BY <2>1, RecordFacts DEF RegistryInv, FilesInv
      <4>2. QED BY <2>2, <3>1, <4>1 DEF RecordExists, Driving, UnderLease
    <3>5. AskedBefore(l)'
      BY <2>2, <3>1 DEF LaunchInv, AskedBefore, Asked
    <3>6. QED BY <3>2, <3>3, <3>4, <3>5 DEF LaunchInv
  <2>6. QED BY <2>2, <2>4, <2>5, QuietStep
<1>3. QED BY <1>1, <1>2

LEMMA ConnectInv ==
    ASSUME RegistryInv, NEW l \in Launchers, Connect(l)
    PROVE  RegistryInv'
<1>1. CASE GiveUp(l)
  <2>1. faults' \in 0 .. MaxFaults /\ lease' \in Leases /\ OthersLease(l)
    BY FaultEffect DEF Connect, RegistryInv, FilesInv, RegistryTypes, OthersLease
  <2>2. pc[l] \notin Resting /\ UNCHANGED <<session, binary, epoch, committed, asked, dropped>>
    BY DEF Connect, Resting
  <2>3. QED BY <1>1, <2>1, <2>2, QuietGiveUp
<1>2. CASE ~GiveUp(l)
  <2>1. /\ pc' = [pc EXCEPT ![l] = "write back"] /\ pc[l] \in {"resume thread", "start thread"}
        /\ UNCHANGED <<session, lease, binary, copy, attempt, epoch, committed, faults, asked, dropped>>
    BY <1>2 DEF Connect, Goto
  <2>2. RegistryTypes' /\ OthersRest(l) /\ OthersLease(l)
    BY <2>1 DEF RegistryInv, FilesInv, RegistryTypes, Labels, OthersRest, OthersLease
  <2>3. LaunchInv(l)'
    <3>1. pc'[l] = "write back" /\ LaunchInv(l)
      BY <2>1 DEF RegistryInv, FilesInv, RegistryTypes
    <3>2. CopyTyped(l)' /\ LastCommitted(copy[l])'
      BY <2>1, <3>1 DEF LaunchInv, LastCommitted, CopyTyped, Preparing
    <3>3. LeaseHeld(l)' /\ FinalizedIsCommitted(l)' /\ RecordExists(l)' /\ CopyIsCurrent(l)' /\ IntentOnRecord(l)' /\ MarkedBefore(l)'
      BY <3>1 DEF LeaseHeld, Driving, UnderLease, FinalizedIsCommitted, RecordExists, CopyIsCurrent, IntentOnRecord, MarkedBefore
    <3>4. AskedBefore(l)'
      BY <2>1, <3>1 DEF LaunchInv, AskedBefore, Asked
    <3>5. QED BY <3>2, <3>3, <3>4 DEF LaunchInv
  <2>4. QED BY <2>1, <2>2, <2>3, QuietStep
<1>3. QED BY <1>1, <1>2

LEMMA AcquireLeaseInv ==
    ASSUME RegistryInv, NEW l \in Launchers, AcquireLease(l)
    PROVE  RegistryInv'
<1>1. UNCHANGED <<session, binary, epoch, committed, faults, asked, dropped>> /\ pc[l] = "acquire"
  BY DEF AcquireLease
<1>2. CASE lease = NoLease \/ Owns(l)
  <2>1. /\ lease' = [owner |-> l, epoch |-> epoch[l], stale |-> FALSE]
        /\ pc' = [pc EXCEPT ![l] = "intent"] /\ UNCHANGED <<attempt, copy>>
    BY <1>2 DEF AcquireLease, Goto
  <2>2. lease.owner \in {"none", l}
    BY <1>2, RecordFacts DEF Owns
  <2>3. RegistryTypes' /\ OthersRest(l)
    <3>1. epoch[l] \in Nat
      BY DEF RegistryInv, FilesInv, RegistryTypes
    <3>2. lease' \in Leases
      BY <2>1, <3>1 DEF Leases
    <3>3. QED BY <1>1, <2>1, <3>2 DEF RegistryInv, FilesInv, RegistryTypes, Labels, UnderLease, OthersRest
  <2>4. OthersLease(l)
    BY <2>2, LiveAssumption DEF OthersLease
  <2>5. pc'[l] = "intent" /\ LaunchInv(l)
    BY <2>1 DEF RegistryInv, FilesInv, RegistryTypes
  <2>6. CopyTyped(l)' /\ LastCommitted(copy[l])' /\ RecordExists(l)'
    BY <1>1, <2>1, <2>5 DEF LaunchInv, CopyTyped, LastCommitted, Preparing, RecordExists
  <2>7. LeaseHeld(l)' /\ FinalizedIsCommitted(l)' /\ CopyIsCurrent(l)' /\ IntentOnRecord(l)' /\ MarkedBefore(l)'
    BY <1>1, <2>1, <2>5 DEF LeaseHeld, Owns, FinalizedIsCommitted, CopyIsCurrent, IntentOnRecord, MarkedBefore
  <2>8. AskedBefore(l)'
    BY <1>1, <2>1, <2>5 DEF LaunchInv, AskedBefore, Asked
  <2>9. LaunchInv(l)'
    BY <2>6, <2>7, <2>8 DEF LaunchInv
  <2>10. QED BY <1>1, <2>3, <2>4, <2>9, QuietStep
<1>3. CASE ~(lease = NoLease \/ Owns(l))
  <2>1. GiveUp(l) /\ UNCHANGED lease
    BY <1>3 DEF AcquireLease
  <2>2. faults' \in 0 .. MaxFaults /\ lease' \in Leases /\ OthersLease(l) /\ pc[l] \notin Resting
    BY <1>1, <2>1, FaultEffect DEF RegistryInv, FilesInv, RegistryTypes, OthersLease, Resting
  <2>3. QED BY <1>1, <2>1, <2>2, QuietGiveUp
<1>4. QED BY <1>2, <1>3

\* of the lease only the staleness changes, of the world only the binary
LEMMA EnvironmentInv ==
    ASSUME RegistryInv, LeaseExpires \/ Install
    PROVE  RegistryInv'
<1>1. UNCHANGED <<session, pc, copy, attempt, epoch, committed, asked, dropped>>
  BY DEF LeaseExpires, Install, local
<1>2. faults' \in 0 .. MaxFaults /\ binary' \in Found
  BY FaultEffect DEF LeaseExpires, Install, RegistryInv, FilesInv, RegistryTypes, Found
<1>3. lease' \in Leases /\ lease'.owner = lease.owner /\ lease'.epoch = lease.epoch
  BY DEF LeaseExpires, Install, RegistryInv, FilesInv, RegistryTypes, Leases
<1>4. FilesInv'
  BY <1>1, <1>2, <1>3 DEF RegistryInv, FilesInv, RegistryTypes, LastCommitted, Marked
<1>5. ASSUME NEW m \in Launchers PROVE LaunchInv(m)'
  <2>1. lease \in Leases /\ LaunchInv(m)
    BY DEF RegistryInv, FilesInv, RegistryTypes
  <2>2. Marked(<<m, epoch[m], attempt[m]>>) => Marked(<<m, epoch[m], attempt[m]>>)'
    BY <1>1 DEF Marked
  <2>3. QED BY <1>1, <1>3, <2>1, <2>2, OthersKept
<1>6. QED BY <1>4, <1>5 DEF RegistryInv

LEMMA ReadRecordInv ==
    ASSUME RegistryInv, NEW l \in Launchers, NEW from, NEW to, ReadRecord(l, from, to),
           \/ from = "intent" /\ to = "write intent"
           \/ from = "read clear" /\ to = "clear"
           \/ from = "read mark" /\ to = "mark"
           \/ from = "read final" /\ to = "finalize"
    PROVE  RegistryInv'
<1>1. /\ pc[l] = from /\ copy' = [copy EXCEPT ![l] = session] /\ pc' = [pc EXCEPT ![l] = to]
      /\ UNCHANGED <<session, lease, binary, attempt, epoch, committed, faults, asked, dropped>>
  BY DEF ReadRecord, Goto, local
<1>2. RegistryTypes' /\ OthersRest(l) /\ OthersLease(l)
  BY <1>1 DEF RegistryInv, FilesInv, RegistryTypes, Labels, UnderLease, OthersRest, OthersLease
<1>3. pc'[l] = to /\ copy'[l] = session /\ LaunchInv(l) /\ session \in Records /\ LastCommitted(session)
  BY <1>1 DEF RegistryInv, FilesInv, RegistryTypes
<1>4. CopyTyped(l)' /\ LastCommitted(copy[l])'
  <2>1. to \notin Preparing
    BY DEF Preparing
  <2>2. CopyTyped(l)'
    BY <1>3, <2>1 DEF CopyTyped
  <2>3. committed' = committed
    BY <1>1
  <2>4. LastCommitted(copy[l])'
    BY <1>3, <2>3, Zenon DEF LastCommitted
  <2>5. QED BY <2>2, <2>4
<1>5. RecordExists(l)' /\ LeaseHeld(l)' /\ FinalizedIsCommitted(l)'
  <2>1. from \in Driving /\ Owns(l)' = Owns(l)
    BY <1>1 DEF Driving, UnderLease, Owns
  <2>2. QED BY <1>1, <1>3, <2>1 DEF LaunchInv, RecordExists, LeaseHeld, FinalizedIsCommitted
<1>6. CopyIsCurrent(l)' /\ MarkedBefore(l)'
  BY <1>1, <1>3 DEF CopyIsCurrent, MarkedBefore
<1>7. IntentOnRecord(l)'
  BY <1>1, <1>3 DEF LaunchInv, IntentOnRecord, Turn
<1>8. AskedBefore(l)'
  BY <1>1, <1>3 DEF LaunchInv, AskedBefore, Asked
<1>9. LaunchInv(l)'
  BY <1>4, <1>5, <1>6, <1>7, <1>8 DEF LaunchInv
<1>10. QED BY <1>1, <1>2, <1>9, QuietStep

LEMMA FollowTurnInv ==
    ASSUME RegistryInv, NEW l \in Launchers, FollowTurn(l)
    PROVE  RegistryInv'
<1>1. pc[l] = "drain" /\ UNCHANGED <<session, lease, binary, epoch, committed, asked, dropped>>
  BY DEF FollowTurn
<1>2. faults' \in 0 .. MaxFaults /\ lease' \in Leases /\ OthersLease(l) /\ pc[l] \notin Resting
  BY <1>1, FaultEffect DEF FollowTurn, RegistryInv, FilesInv, RegistryTypes, OthersLease, Resting
<1>3. CASE GiveUp(l) \/ Halt(l)
  BY <1>1, <1>2, <1>3, QuietGiveUp
<1>4. CASE ~(GiveUp(l) \/ Halt(l))
  <2>1. PICK x \in {"commit", "failed"}, a \in {0, attempt[l]} :
          /\ pc' = [pc EXCEPT ![l] = x] /\ UNCHANGED copy
          /\ attempt' = [attempt EXCEPT ![l] = a]
          /\ x = "commit" => a = attempt[l]
    BY <1>4 DEF FollowTurn, Goto, RegistryInv, FilesInv, RegistryTypes
  <2>2. RegistryTypes' /\ OthersRest(l)
    BY <1>1, <1>2, <2>1, Bounds DEF RegistryInv, FilesInv, RegistryTypes, Labels, Resting, OthersRest
  <2>3. pc'[l] = x /\ attempt'[l] = a /\ LaunchInv(l)
    BY <2>1 DEF RegistryInv, FilesInv, RegistryTypes
  <2>4. CopyTyped(l)' /\ LastCommitted(copy[l])' /\ RecordExists(l)' /\ LeaseHeld(l)'
    BY <1>1, <2>1, <2>3 DEF LaunchInv, CopyTyped, LastCommitted, Preparing, RecordExists, LeaseHeld, Owns,
       Driving, UnderLease
  <2>5. FinalizedIsCommitted(l)' /\ CopyIsCurrent(l)' /\ IntentOnRecord(l)' /\ MarkedBefore(l)'
    BY <2>3 DEF FinalizedIsCommitted, CopyIsCurrent, IntentOnRecord, MarkedBefore
  <2>6. AskedBefore(l)'
    BY <1>1, <2>1, <2>3 DEF LaunchInv, AskedBefore, Asked
  <2>7. LaunchInv(l)'
    BY <2>4, <2>5, <2>6 DEF LaunchInv
  <2>8. QED BY <1>1, <1>2, <2>2, <2>7, QuietStep
<1>5. QED BY <1>3, <1>4

LEMMA CommitStepInv ==
    ASSUME RegistryInv, NEW l \in Launchers, CommitStep(l)
    PROVE  RegistryInv'
<1>1. /\ pc[l] = "commit" /\ pc' = [pc EXCEPT ![l] = "read final"] /\ committed' = committed \cup {l}
      /\ UNCHANGED <<session, lease, binary, copy, attempt, epoch, faults, asked, dropped>>
  BY DEF CommitStep, Goto
<1>2. RegistryTypes' /\ OthersRest(l) /\ OthersLease(l)
  BY <1>1 DEF RegistryInv, FilesInv, RegistryTypes, Labels, OthersRest, OthersLease
<1>3. pc'[l] = "read final" /\ LaunchInv(l)
  BY <1>1 DEF RegistryInv, FilesInv, RegistryTypes
<1>4. CopyTyped(l)' /\ LastCommitted(copy[l])' /\ RecordExists(l)' /\ LeaseHeld(l)'
  BY <1>1, <1>3 DEF LaunchInv, CopyTyped, LastCommitted, Preparing, RecordExists, LeaseHeld, Owns,
     Driving, UnderLease
<1>5. FinalizedIsCommitted(l)' /\ CopyIsCurrent(l)' /\ IntentOnRecord(l)' /\ MarkedBefore(l)' /\ AskedBefore(l)'
  BY <1>1, <1>3 DEF LaunchInv, FinalizedIsCommitted, CopyIsCurrent, IntentOnRecord, MarkedBefore, AskedBefore, Asked
<1>6. LaunchInv(l)'
  BY <1>4, <1>5 DEF LaunchInv
<1>7. QED BY <1>1, <1>2, <1>6, QuietStep

LEMMA CrashInv ==
    ASSUME RegistryInv, NEW l \in Launchers, Crash(l)
    PROVE  RegistryInv'
<1>1. /\ Goto(l, "dead") /\ attempt' = [attempt EXCEPT ![l] = 0] /\ copy' = [copy EXCEPT ![l] = NoSession]
      /\ UNCHANGED <<session, lease, binary, epoch, committed, asked, dropped>> /\ faults' \in 0 .. MaxFaults
  BY FaultEffect DEF Crash
<1>2. RegistryTypes' /\ OthersRest(l) /\ OthersLease(l) /\ pc'[l] = "dead" /\ copy'[l] = NoSession
  BY <1>1, HaltEffect DEF RegistryInv, FilesInv, RegistryTypes, OthersRest, OthersLease
<1>3. LaunchInv(l)'
  BY <1>1, <1>2, GivenUp
<1>4. QED BY <1>1, <1>2, <1>3, QuietStep

LEMMA ResumeInv ==
    ASSUME RegistryInv, NEW l \in Launchers, Resume(l)
    PROVE  RegistryInv'
<1>1. UNCHANGED <<session, lease, binary, copy, attempt, committed, faults, asked, dropped>>
  BY DEF Resume
<1>2. PICK x \in {"done", "begin"}, e \in 1 .. MaxEpochs :
        /\ pc' = [pc EXCEPT ![l] = x] /\ epoch' = [epoch EXCEPT ![l] = e] /\ epoch[l] <= e
        /\ x = "begin" => e = epoch[l] + 1
  BY LiveAssumption DEF Resume, Goto, RegistryInv, FilesInv, RegistryTypes
<1>3. RegistryTypes' /\ OthersRest(l) /\ OthersLease(l)
  BY <1>1, <1>2 DEF RegistryInv, FilesInv, RegistryTypes, Labels, Resting, OthersRest, OthersLease
<1>4. pc'[l] = x /\ epoch'[l] = e /\ LaunchInv(l) /\ pc[l] \in {"failed", "halted", "dead"}
  BY <1>2 DEF Resume, RegistryInv, FilesInv, RegistryTypes
<1>5. CopyTyped(l)' /\ LastCommitted(copy[l])'
  BY <1>1, <1>4 DEF LaunchInv, CopyTyped, LastCommitted, Preparing
<1>6. LeaseHeld(l)' /\ FinalizedIsCommitted(l)' /\ RecordExists(l)' /\ CopyIsCurrent(l)' /\ IntentOnRecord(l)' /\ MarkedBefore(l)'
  BY <1>4 DEF LeaseHeld, Driving, UnderLease, FinalizedIsCommitted, RecordExists, CopyIsCurrent, IntentOnRecord, MarkedBefore
<1>7. AskedBefore(l)'
  <2>1. asked \subseteq Launchers \X Nat \X Nat /\ epoch[l] \in Nat /\ e \in Nat
    BY DEF RegistryInv, FilesInv, RegistryTypes
  <2>2. \A t \in asked : t[2] \in Nat
    BY <2>1
  <2>3. QED BY <1>1, <1>2, <1>4, <2>1, <2>2 DEF LaunchInv, AskedBefore
<1>8. LaunchInv(l)'
  BY <1>5, <1>6, <1>7 DEF LaunchInv
<1>9. QED BY <1>1, <1>3, <1>8, QuietStep

\* a lease that is given back is nobody else's
LEMMA ReleasedEffect ==
    ASSUME RegistryInv, NEW l \in Launchers, lease' = Released(l)
    PROVE  lease' \in Leases /\ OthersLease(l)
BY RecordFacts DEF Released, Owns, OthersLease, RegistryInv, FilesInv, RegistryTypes

LEMMA KeyParts ==
    \A l, t : \A e, a \in Nat : t = <<l, e, a>> => t[1] = l /\ t[2] = e /\ t[3] = a /\ e <= e
OBVIOUS

LEMMA StartTurnInv ==
    ASSUME RegistryInv, NEW l \in Launchers, StartTurn(l)
    PROVE  RegistryInv'
<1> DEFINE own == <<l, epoch[l], attempt[l]>>
<1>1. pc[l] = "start turn" /\ UNCHANGED <<session, binary, epoch, committed, dropped>> /\ LaunchInv(l) /\ Marked(own)
  BY DEF StartTurn, RegistryInv, LaunchInv, MarkedBefore
<1>2. asked' \in {asked, asked \cup {own}}
  BY DEF StartTurn, Key, Turn
<1>3. /\ epoch[l] \in Nat /\ attempt[l] \in Nat
      /\ own \in Launchers \X Nat \X Nat /\ own[1] = l /\ own[2] = epoch[l] /\ own[3] = attempt[l]
  BY DEF RegistryInv, FilesInv, RegistryTypes
<1>4. lease' \in Leases /\ OthersLease(l) /\ faults' \in 0 .. MaxFaults
  BY ReleasedEffect, FaultEffect DEF StartTurn, RegistryInv, FilesInv, RegistryTypes, OthersLease
<1>5. /\ pc' \in [Launchers -> Labels] /\ attempt' \in [Launchers -> 0 .. MaxAttempts]
      /\ copy' \in [Launchers -> Records \cup KnownRecords] /\ OthersRest(l) /\ LaunchInv(l)'
  <2>1. CASE GiveUp(l)
    <3>1. pc[l] \notin Resting
      BY <1>1 DEF Resting
    <3>2. RegistryTypes
      BY DEF RegistryInv, FilesInv
    <3>3. QED BY <1>1, <1>2, <2>1, <3>1, <3>2, GiveUpEffect, GivenUp DEF OthersRest
  <2>2. CASE ~GiveUp(l)
    <3>1. PICK x \in {"read mark", "read clear"} :
            /\ pc' = [pc EXCEPT ![l] = x] /\ UNCHANGED <<lease, attempt, copy>>
            /\ x = "read clear" => asked' = asked
      BY <2>2 DEF StartTurn, Goto
    <3>2. /\ pc' \in [Launchers -> Labels] /\ attempt' \in [Launchers -> 0 .. MaxAttempts]
          /\ copy' \in [Launchers -> Records \cup KnownRecords] /\ OthersRest(l) /\ pc'[l] = x
      BY <1>1, <3>1 DEF RegistryInv, FilesInv, RegistryTypes, Labels, UnderLease, OthersRest
    <3>3. CopyTyped(l)' /\ LastCommitted(copy[l])' /\ RecordExists(l)' /\ LeaseHeld(l)'
      BY <1>1, <3>1, <3>2 DEF LaunchInv, CopyTyped, LastCommitted, Preparing, RecordExists, LeaseHeld, Owns,
         Driving, UnderLease
    <3>4. FinalizedIsCommitted(l)' /\ CopyIsCurrent(l)' /\ MarkedBefore(l)'
      BY <3>2 DEF FinalizedIsCommitted, CopyIsCurrent, MarkedBefore
    <3>5. IntentOnRecord(l)'
      BY <1>1, <3>1, <3>2 DEF LaunchInv, IntentOnRecord, Turn
    <3>6. AskedBefore(l)'
      <4>1. SUFFICES ASSUME NEW t \in asked', t[1] = l
                     PROVE  /\ t[2] <= epoch[l]
                            /\ t[2] = epoch[l] => t[3] < attempt[l] \/ (t[3] = attempt[l] /\ x = "read mark")
        BY <1>1, <3>1, <3>2 DEF AskedBefore, Asked
      <4>2. CASE t \in asked
        BY <1>1, <4>1, <4>2 DEF LaunchInv, AskedBefore, Asked
      <4>3. CASE t = own /\ x = "read mark"
        BY <1>3, <4>3, KeyParts, Zenon
      <4>4. QED BY <1>2, <3>1, <4>1, <4>2, <4>3
    <3>7. QED BY <3>2, <3>3, <3>4, <3>5, <3>6 DEF LaunchInv
  <2>3. QED BY <2>1, <2>2
<1>6. FilesInv'
  <2>1. RegistryTypes'
    BY <1>1, <1>2, <1>3, <1>4, <1>5 DEF RegistryInv, FilesInv, RegistryTypes
  <2>2. \A t : Marked(t) => Marked(t)'
    BY <1>1 DEF Marked
  <2>3. QED BY <1>1, <1>2, <2>1, <2>2 DEF RegistryInv, FilesInv, LastCommitted
<1>7. ASSUME NEW m \in Launchers, m # l PROVE LaunchInv(m)'
  <2>1. Marked(<<m, epoch[m], attempt[m]>>) => Marked(<<m, epoch[m], attempt[m]>>)'
    BY <1>1, <1>5, <1>7 DEF Marked, OthersRest
  <2>2. \A t \in asked' : t \in asked \/ t[1] # m
    BY <1>2, <1>3, <1>7
  <2>3. QED
    BY <1>1, <1>4, <1>5, <1>7, <2>1, <2>2, OthersKept DEF RegistryInv, FilesInv, RegistryTypes, OthersRest, OthersLease
<1>8. QED BY <1>5, <1>6, <1>7 DEF RegistryInv

\* one launch at a time drives the session
LEMMA Exclusive ==
    ASSUME RegistryInv, NEW l \in Launchers, pc[l] \in Driving
    PROVE  \A m \in Launchers \ {l} : pc[m] \notin Driving
BY DEF RegistryInv, LaunchInv, LeaseHeld, Owns

\* a step that writes the record: it keeps the binary, puts a turn on the record
\* only while nobody else drives, and takes one off with a mark or its own
LEMMA WriteStep ==
    ASSUME RegistryInv, NEW l \in Launchers, NEW rec \in Records, NEW how, Write(l, rec, how),
           rec.binary # "none", session.binary # "none" => rec.binary = session.binary,
           LastCommitted(rec), UNCHANGED <<asked, committed>>,
           RegistryTypes', OthersRest(l), OthersLease(l),
           rec.active = NoTurn \/ pc[l] \in Driving,
           \/ how \in {"recovery", "write back", "intent"}
           \/ pc[l] \in Driving /\ (session.active # NoTurn /\ Key(session.active) \in asked
                                        => session.active.owner \in committed),
           LaunchInv(l)'
    PROVE  RegistryInv'
<1>1. session \in Records /\ session.active \in Turns /\ session' = rec
  BY DEF RegistryInv, FilesInv, RegistryTypes, Records, Write
<1>2. FilesInv'
  <2>1. ASSUME NEW t \in asked' PROVE Marked(t)'
    <3>1. Marked(t) /\ t \in asked
      BY DEF RegistryInv, FilesInv
    <3>2. CASE how \in {"recovery", "write back", "intent"}
      BY <1>1, <3>1, <3>2, MarkKept
    <3>3. CASE how \notin {"recovery", "write back", "intent"} /\ session.active # NoTurn /\ Key(session.active) = t
      <4>1. t[1] = session.active.owner
        BY <3>3 DEF Key
      <4>2. QED BY <3>1, <3>3, <4>1 DEF Marked
    <3>4. QED BY <1>1, <3>1, <3>2, <3>3, MarkKept
  <2>2. LastCommitted(session)'
    BY <1>1 DEF LastCommitted
  <2>3. QED BY <1>1, <2>1, <2>2 DEF FilesInv
<1>3. ASSUME NEW m \in Launchers, m # l PROVE LaunchInv(m)'
  <2>1. pc[m] \in Driving => pc[l] \notin Driving
    BY <1>3, Exclusive
  <2>2. pc[m] \in Driving => session'.active \in {NoTurn, session.active}
    BY <1>1, <2>1
  <2>3. pc[m] = "start turn" => pc[m] \in Driving
    BY DEF Driving, UnderLease
  <2>4. pc[m] = "start turn" /\ Marked(<<m, epoch[m], attempt[m]>>) => Marked(<<m, epoch[m], attempt[m]>>)'
    <3>1. SUFFICES ASSUME pc[m] = "start turn", Marked(<<m, epoch[m], attempt[m]>>)
                   PROVE  Marked(<<m, epoch[m], attempt[m]>>)'
      OBVIOUS
    <3>2. how \in {"recovery", "write back", "intent"}
      BY <2>1, <2>3, <3>1
    <3>3. epoch'[m] = epoch[m] /\ attempt'[m] = attempt[m]
      BY <1>3 DEF OthersRest
    <3>4. \A t : Marked(t) => Marked(t)'
      BY <1>1, <3>2, MarkKept
    <3>5. PICK t : t = <<m, epoch[m], attempt[m]>>
      OBVIOUS
    <3>6. Marked(t)
      BY <3>1, <3>5
    <3>7. Marked(t)'
      BY <3>4, <3>6
    <3>8. t = <<m, epoch'[m], attempt'[m]>>
      BY <3>3, <3>5
    <3>9. QED BY <3>7, <3>8
  <2>5. lease \in Leases /\ LaunchInv(m)
    BY DEF RegistryInv, FilesInv, RegistryTypes
  <2>6. QED
    BY <1>1, <1>3, <2>2, <2>4, <2>5, OthersKept DEF OthersRest, OthersLease
<1>4. QED BY <1>2, <1>3 DEF RegistryInv

LEMMA AbandonInv ==
    ASSUME RegistryInv, NEW l \in Launchers, Abandon(l)
    PROVE  RegistryInv'
<1> DEFINE rec == [session EXCEPT !.active = NoTurn]
           mine == [copy[l] EXCEPT !.active = NoTurn]
<1>1. /\ pc[l] = "abandon" /\ Write(l, rec, "recovery") /\ copy' = [copy EXCEPT ![l] = mine]
      /\ pc' = [pc EXCEPT ![l] = "resume thread"]
      /\ UNCHANGED <<lease, binary, attempt, epoch, committed, faults, asked>>
  BY DEF Abandon, Goto, local
<1>2. session \in Records /\ LaunchInv(l) /\ LastCommitted(session)
  BY DEF RegistryInv, FilesInv, RegistryTypes
<1>3. rec \in Records /\ rec.binary = session.binary /\ rec.last = session.last /\ rec.active = NoTurn
  BY <1>2, RecordFacts DEF Records
<1>4. copy[l] \in KnownRecords
  BY <1>1, <1>2 DEF LaunchInv, CopyTyped, Preparing
<1>5. mine \in KnownRecords /\ mine.last = copy[l].last
  BY <1>4, RecordFacts DEF KnownRecords
<1>6. session.binary # "none"
  BY <1>1, <1>2 DEF LaunchInv, RecordExists
<1>7. RegistryTypes' /\ OthersRest(l) /\ OthersLease(l)
  BY <1>1, <1>3, <1>5 DEF RegistryInv, FilesInv, RegistryTypes, Labels, OthersRest, OthersLease, Write
<1>8. pc'[l] = "resume thread" /\ copy'[l] = mine
  BY <1>1 DEF RegistryInv, FilesInv, RegistryTypes
<1>9. CopyTyped(l)' /\ LastCommitted(copy[l])'
  <2>1. CopyTyped(l)'
    BY <1>5, <1>8 DEF CopyTyped, Preparing
  <2>2. copy'[l].last = copy[l].last /\ committed' = committed
    BY <1>1, <1>5, <1>8
  <2>3. LastCommitted(copy[l])
    BY <1>2 DEF LaunchInv
  <2>4. LastCommitted(copy[l])'
    BY <2>2, <2>3, Zenon DEF LastCommitted
  <2>5. QED BY <2>1, <2>4
<1>10. LeaseHeld(l)' /\ FinalizedIsCommitted(l)' /\ RecordExists(l)' /\ CopyIsCurrent(l)' /\ IntentOnRecord(l)' /\ MarkedBefore(l)'
  BY <1>8 DEF LeaseHeld, Driving, UnderLease, FinalizedIsCommitted, RecordExists, CopyIsCurrent, IntentOnRecord, MarkedBefore
<1>11. AskedBefore(l)'
  BY <1>1, <1>2, <1>8 DEF LaunchInv, AskedBefore, Asked
<1>12. LaunchInv(l)'
  BY <1>9, <1>10, <1>11 DEF LaunchInv
<1>13. LastCommitted(rec)
  BY <1>2, <1>3 DEF LastCommitted
<1> HIDE DEF rec, mine
<1>14. QED BY <1>1, <1>3, <1>6, <1>7, <1>12, <1>13, WriteStep

LEMMA WriteBackInv ==
    ASSUME RegistryInv, NEW l \in Launchers, WriteBack(l)
    PROVE  RegistryInv'
<1> DEFINE next == NextRecord(copy[l])
<1>1. pc[l] = "write back" /\ UNCHANGED <<lease, binary, epoch, committed, faults, asked>>
  BY DEF WriteBack
<1>2. session \in Records /\ LaunchInv(l) /\ lease \in Leases
  BY DEF RegistryInv, FilesInv, RegistryTypes
<1>3. CASE GiveUp(l) /\ UNCHANGED <<session, dropped>>
  <2>1. faults' \in 0 .. MaxFaults /\ lease' \in Leases /\ OthersLease(l) /\ pc[l] \notin Resting
    BY <1>1, <1>2, FaultEffect DEF OthersLease, Resting
  <2>2. QED BY <1>1, <1>3, <2>1, QuietGiveUp
<1>4. CASE ~(GiveUp(l) /\ UNCHANGED <<session, dropped>>)
  <2>1. /\ session = NoSession \/ ~Drifted(session, next)
        /\ Write(l, next, "write back") /\ pc' = [pc EXCEPT ![l] = "acquire"]
        /\ copy' = [copy EXCEPT ![l] = NoSession] /\ UNCHANGED attempt
    BY <1>4 DEF WriteBack, Goto
  <2>2. copy[l] \in KnownRecords
    BY <1>1, <1>2 DEF LaunchInv, CopyTyped, Preparing
  <2>3. /\ next \in Records /\ next.binary \in Paths /\ next.active = NoTurn /\ next.last = copy[l].last
    BY <2>2, RecordFacts DEF KnownRecords, Records, Found, NextRecord
  <2>4. next.binary # "none" /\ (session.binary # "none" => next.binary = session.binary)
    BY <2>1, <2>3, RecordFacts, LiveAssumption DEF Drifted
  <2>5. LastCommitted(next)
    BY <1>2, <2>3 DEF LaunchInv, LastCommitted
  <2>6. RegistryTypes' /\ OthersRest(l) /\ OthersLease(l)
    BY <1>1, <2>1, <2>3, RecordFacts DEF RegistryInv, FilesInv, RegistryTypes, Labels, OthersRest, OthersLease, Write
  <2>7. pc'[l] = "acquire" /\ copy'[l] = NoSession /\ session' = next
    BY <2>1 DEF RegistryInv, FilesInv, RegistryTypes, Write
  <2>8. CopyTyped(l)' /\ LastCommitted(copy[l])' /\ RecordExists(l)'
    BY <2>4, <2>7, RecordFacts DEF CopyTyped, LastCommitted, RecordExists, Preparing
  <2>9. LeaseHeld(l)' /\ FinalizedIsCommitted(l)' /\ CopyIsCurrent(l)' /\ IntentOnRecord(l)' /\ MarkedBefore(l)'
    BY <2>7 DEF LeaseHeld, Driving, UnderLease, FinalizedIsCommitted, CopyIsCurrent, IntentOnRecord, MarkedBefore
  <2>10. AskedBefore(l)'
    BY <1>1, <1>2, <2>1, <2>7 DEF LaunchInv, AskedBefore, Asked
  <2>11. LaunchInv(l)'
    BY <2>8, <2>9, <2>10 DEF LaunchInv
  <2> HIDE DEF next
  <2>12. QED BY <1>1, <2>1, <2>3, <2>4, <2>5, <2>6, <2>11, WriteStep
<1>5. QED BY <1>3, <1>4

LEMMA TurnFacts ==
    ASSUME RegistryInv, NEW l \in Launchers, NEW phase \in {"intent", "started"}
    PROVE  /\ Turn(l, phase) \in Turns /\ Turn(l, phase) # NoTurn /\ Turn(l, phase).owner = l
           /\ Key(Turn(l, phase)) = <<l, epoch[l], attempt[l]>>
BY LiveAssumption DEF Turn, Turns, NoTurn, Key, RegistryInv, FilesInv, RegistryTypes

LEMMA RecordTurnIntentInv ==
    ASSUME RegistryInv, NEW l \in Launchers, NEW from, NEW phase, NEW to, RecordTurnIntent(l, from, phase, to),
           \/ from = "write intent" /\ phase = "intent" /\ to = "start turn"
           \/ from = "mark" /\ phase = "started" /\ to = "drain"
    PROVE  RegistryInv'
<1> DEFINE rec == [copy[l] EXCEPT !.active = Turn(l, phase)]
<1>1. /\ pc[l] = from /\ Write(l, rec, "intent") /\ copy' = [copy EXCEPT ![l] = NoSession]
      /\ pc' = [pc EXCEPT ![l] = to]
      /\ UNCHANGED <<lease, binary, attempt, epoch, committed, faults, asked>>
  BY DEF RecordTurnIntent, Goto, local
<1>2. session \in Records /\ LaunchInv(l)
  BY DEF RegistryInv, FilesInv, RegistryTypes
<1>3. copy[l] \in Records
  BY <1>1, <1>2 DEF LaunchInv, CopyTyped, Preparing
<1>4. rec \in Records /\ rec.binary = copy[l].binary /\ rec.last = copy[l].last /\ rec.active = Turn(l, phase)
  BY <1>3, TurnFacts DEF Records
<1>5. rec.binary # "none" /\ rec.binary = session.binary
  BY <1>1, <1>2, <1>4 DEF LaunchInv, RecordExists, CopyIsCurrent, Driving, UnderLease
<1>6. LastCommitted(rec)
  BY <1>2, <1>4 DEF LaunchInv, LastCommitted
<1>7. RegistryTypes' /\ OthersRest(l) /\ OthersLease(l)
  BY <1>1, <1>4, RecordFacts DEF RegistryInv, FilesInv, RegistryTypes, Labels, UnderLease, OthersRest, OthersLease, Write
<1>8. pc'[l] = to /\ copy'[l] = NoSession /\ session' = rec
  BY <1>1 DEF RegistryInv, FilesInv, RegistryTypes, Write
<1>9. CopyTyped(l)' /\ LastCommitted(copy[l])' /\ RecordExists(l)'
  BY <1>5, <1>8, RecordFacts DEF CopyTyped, LastCommitted, RecordExists, Preparing
<1>10. LeaseHeld(l)' /\ FinalizedIsCommitted(l)' /\ CopyIsCurrent(l)'
  BY <1>1, <1>2, <1>8 DEF LaunchInv, LeaseHeld, Owns, Driving, UnderLease, FinalizedIsCommitted, CopyIsCurrent
<1>11. IntentOnRecord(l)'
  BY <1>1, <1>4, <1>8 DEF IntentOnRecord, Turn
<1>12. MarkedBefore(l)'
  <2>1. session'.active # NoTurn /\ Key(session'.active) = <<l, epoch[l], attempt[l]>>
    BY <1>4, <1>8, TurnFacts
  <2>2. epoch' = epoch /\ attempt' = attempt
    BY <1>1
  <2>3. QED BY <2>1, <2>2 DEF MarkedBefore, Marked, Key
<1>13. AskedBefore(l)'
  BY <1>1, <1>2, <1>8 DEF LaunchInv, AskedBefore, Asked
<1>14. LaunchInv(l)'
  BY <1>9, <1>10, <1>11, <1>12, <1>13 DEF LaunchInv
<1>15. pc[l] \in Driving
  BY <1>1 DEF Driving, UnderLease
<1> HIDE DEF rec
<1>16. QED BY <1>1, <1>4, <1>5, <1>6, <1>7, <1>14, <1>15, WriteStep

LEMMA ClearInv ==
    ASSUME RegistryInv, NEW l \in Launchers, ClearActiveTurnIfSafe(l)
    PROVE  RegistryInv'
<1> DEFINE rec == [copy[l] EXCEPT !.active = NoTurn]
<1>1. /\ pc[l] = "clear" /\ GiveUp(l) /\ lease' = Released(l)
      /\ UNCHANGED <<binary, epoch, committed, faults, asked>>
  BY DEF ClearActiveTurnIfSafe
<1>2. session \in Records /\ LaunchInv(l) /\ RegistryTypes
  BY DEF RegistryInv, FilesInv, RegistryTypes
<1>3. /\ lease' \in Leases /\ OthersLease(l) /\ faults' \in 0 .. MaxFaults
      /\ pc[l] \notin Resting /\ pc[l] \in Driving
  BY <1>1, ReleasedEffect, FaultEffect DEF Resting, Driving, UnderLease
<1>4. CASE UNCHANGED <<session, dropped>>
  BY <1>1, <1>3, <1>4, QuietGiveUp
<1>5. CASE ~UNCHANGED <<session, dropped>>
  <2>1. Write(l, rec, "backpressure")
    BY <1>5 DEF ClearActiveTurnIfSafe
  <2>2. copy[l] \in Records
    BY <1>1, <1>2 DEF LaunchInv, CopyTyped, Preparing
  <2>3. rec \in Records /\ rec.binary = copy[l].binary /\ rec.last = copy[l].last /\ rec.active = NoTurn
    BY <2>2, RecordFacts DEF Records
  <2>4. rec.binary # "none" /\ rec.binary = session.binary
    BY <1>1, <1>2, <1>3, <2>3 DEF LaunchInv, RecordExists, CopyIsCurrent
  <2>5. LastCommitted(rec)
    BY <1>2, <2>3 DEF LaunchInv, LastCommitted
  <2>6. RegistryTypes' /\ OthersRest(l)
    BY <1>1, <1>2, <1>3, <2>1, <2>3, GiveUpEffect DEF RegistryTypes, OthersRest, Write
  <2>7. LaunchInv(l)'
    BY <1>1, <1>2, <1>3, GiveUpEffect, GivenUp
  <2>8. session.active # NoTurn => Key(session.active) \notin asked
    <3>1. SUFFICES ASSUME session.active # NoTurn, Key(session.active) \in asked PROVE FALSE
      OBVIOUS
    <3>2. session.active = Turn(l, "intent")
      BY <1>1, <1>2, <3>1 DEF LaunchInv, IntentOnRecord
    <3>3. PICK t \in asked : t = <<l, epoch[l], attempt[l]>>
      BY <3>1, <3>2, TurnFacts
    <3>4. epoch[l] \in Nat /\ attempt[l] \in Nat
      BY <1>2 DEF RegistryTypes
    <3>5. t[1] = l /\ t[2] = epoch[l] /\ t[3] = attempt[l]
      BY <3>3, <3>4, KeyParts
    <3>6. AskedBefore(l) /\ ~(attempt[l] < attempt[l])
      BY <1>2, <3>4 DEF LaunchInv
    <3>7. QED BY <1>1, <3>5, <3>6 DEF AskedBefore, Asked
  <2> HIDE DEF rec
  <2>9. QED BY <1>1, <1>3, <2>1, <2>3, <2>4, <2>5, <2>6, <2>7, <2>8, WriteStep
<1>6. QED BY <1>4, <1>5

LEMMA FinalizeTurnInv ==
    ASSUME RegistryInv, NEW l \in Launchers, FinalizeTurn(l)
    PROVE  RegistryInv'
<1> DEFINE rec == FinalizeCommittedTurn(copy[l], Turn(l, "started"))
<1>1. /\ pc[l] = "finalize" /\ Goto(l, "done") /\ attempt' = [attempt EXCEPT ![l] = 0]
      /\ copy' = [copy EXCEPT ![l] = NoSession] /\ UNCHANGED <<binary, epoch, committed, faults, asked>>
  BY DEF FinalizeTurn
<1>2. session \in Records /\ LaunchInv(l) /\ RegistryTypes
  BY DEF RegistryInv, FilesInv, RegistryTypes
<1>3. /\ pc' \in [Launchers -> Labels] /\ attempt' \in [Launchers -> 0 .. MaxAttempts] /\ OthersRest(l)
      /\ copy' \in [Launchers -> Records \cup KnownRecords] /\ copy'[l] = NoSession /\ pc'[l] = "done"
  BY <1>1, <1>2, HaltEffect DEF OthersRest
<1>4. LaunchInv(l)'
  BY <1>1, <1>3, GivenUp
<1>5. CASE ~activeTurnMatchesCommit(copy[l].active, Turn(l, "started"))
  <2>1. UNCHANGED <<session, lease, dropped>>
    BY <1>5 DEF FinalizeTurn
  <2>2. RegistryTypes' /\ OthersLease(l)
    BY <1>1, <1>2, <1>3, <2>1 DEF RegistryTypes, OthersLease
  <2>3. QED BY <1>1, <1>3, <1>4, <2>1, <2>2, QuietStep
<1>6. CASE activeTurnMatchesCommit(copy[l].active, Turn(l, "started"))
  <2>1. Write(l, rec, "finalize") /\ lease' = Released(l)
    BY <1>6 DEF FinalizeTurn
  <2>2. copy[l] \in Records
    BY <1>1, <1>2 DEF LaunchInv, CopyTyped, Preparing
  <2>3. rec \in Records /\ rec.binary = copy[l].binary /\ rec.last = Turn(l, "started") /\ rec.active = NoTurn
    BY <2>2, RecordFacts, TurnFacts DEF Records, FinalizeCommittedTurn
  <2>4. pc[l] \in Driving /\ l \in committed
    BY <1>1, <1>2 DEF LaunchInv, FinalizedIsCommitted, Driving
  <2>5. rec.binary # "none" /\ rec.binary = session.binary
    BY <1>1, <1>2, <2>3, <2>4 DEF LaunchInv, RecordExists, CopyIsCurrent
  <2>6. LastCommitted(rec)
    BY <2>3, <2>4, TurnFacts DEF LastCommitted
  <2>7. RegistryTypes' /\ OthersLease(l)
    BY <1>1, <1>2, <1>3, <2>1, <2>3, ReleasedEffect DEF RegistryTypes, Write
  <2>8. session.active # NoTurn => session.active.owner \in committed
    BY <1>1, <1>2, <1>6, <2>4, TurnFacts DEF LaunchInv, CopyIsCurrent, activeTurnMatchesCommit
  <2> HIDE DEF rec
  <2>9. QED BY <1>1, <1>3, <1>4, <2>1, <2>3, <2>4, <2>5, <2>6, <2>7, <2>8, WriteStep
<1>7. QED BY <1>5, <1>6

LEMMA LiveNextInv == RegistryInv /\ [LiveNext]_liveVars => RegistryInv'
<1>1. SUFFICES ASSUME RegistryInv, [LiveNext]_liveVars PROVE RegistryInv'
  OBVIOUS
<1>2. CASE UNCHANGED liveVars
  <2>1. UNCHANGED <<session, lease, binary, pc, copy, attempt, epoch, committed, faults, asked, dropped>>
    BY <1>2 DEF liveVars
  <2>2. FilesInv'
    BY <1>1, <2>1 DEF RegistryInv, FilesInv, RegistryTypes, LastCommitted, Marked
  <2>3. ASSUME NEW m \in Launchers PROVE LaunchInv(m)'
    BY <1>1, <2>1, OthersKept DEF RegistryInv, FilesInv, RegistryTypes, Marked
  <2>4. QED BY <2>2, <2>3 DEF RegistryInv
<1>3. ASSUME NEW l \in Launchers, LaunchStep(l) PROVE RegistryInv'
  <2>1. CASE Begin(l) \/ Prepare(l) \/ Abandon(l) \/ Connect(l) \/ WriteBack(l) \/ AcquireLease(l)
    BY <1>1, <2>1, BeginInv, PrepareInv, AbandonInv, ConnectInv, WriteBackInv, AcquireLeaseInv
  <2>2. CASE \/ ReadRecord(l, "intent", "write intent") \/ ReadRecord(l, "read clear", "clear")
             \/ ReadRecord(l, "read mark", "mark") \/ ReadRecord(l, "read final", "finalize")
    <3>1. CASE ReadRecord(l, "intent", "write intent")
      BY <1>1, <3>1, ReadRecordInv
    <3>2. CASE ReadRecord(l, "read clear", "clear")
      BY <1>1, <3>2, ReadRecordInv
    <3>3. CASE ReadRecord(l, "read mark", "mark")
      BY <1>1, <3>3, ReadRecordInv
    <3>4. CASE ReadRecord(l, "read final", "finalize")
      BY <1>1, <3>4, ReadRecordInv
    <3>5. QED BY <2>2, <3>1, <3>2, <3>3, <3>4
  <2>3. CASE \/ RecordTurnIntent(l, "write intent", "intent", "start turn")
             \/ RecordTurnIntent(l, "mark", "started", "drain")
    BY <1>1, <2>3, RecordTurnIntentInv
  <2>4. CASE StartTurn(l) \/ ClearActiveTurnIfSafe(l) \/ FollowTurn(l) \/ CommitStep(l) \/ FinalizeTurn(l)
    BY <1>1, <2>4, StartTurnInv, ClearInv, FollowTurnInv, CommitStepInv, FinalizeTurnInv
  <2>5. QED BY <1>3, <2>1, <2>2, <2>3, <2>4 DEF LaunchStep
<1>4. CASE LiveNext
  BY <1>1, <1>3, <1>4, CrashInv, ResumeInv, EnvironmentInv DEF LiveNext
<1>5. QED BY <1>1, <1>2, <1>4

-----------------------------------------------------------------------------
(* Whose turns leave the record, and how: a second invariant on top of the *)
(* first one.                                                              *)

\* positions behind the read of prepareSession and before a turn of the launch is on record
Away == {"resume thread", "start thread", "write back", "acquire", "intent", "write intent"}
\* what the position of a launch says about the turn on record
SeenFrom(l) ==
    /\ pc[l] = "abandon" => Recovery[l] = "continue"
    /\ pc[l] \in Away => session.active.owner # l
    /\ pc[l] \in {"read mark", "mark"} => session.active \in {NoTurn, Turn(l, "intent")}
\* a loss is one of those that LeftTheRecord names
Explained(d) ==
    /\ d[2] = "recovery" => Recovery[d[3]] = "continue"
    /\ d[2] \in {"write back", "intent"} => d[3] # d[1][1]
LossInv == (\A l \in Launchers : SeenFrom(l)) /\ (\A d \in dropped : Explained(d))

\* what a write leaves on record and in the history
Wrote(l, how, a) ==
    /\ session'.active = a
    /\ \A d \in dropped' : \/ d \in dropped
                           \/ /\ session.active # NoTurn /\ Key(a) # Key(session.active)
                              /\ d = <<Key(session.active), how, l>>

\* the writes of a launch, by its position
Recorded(l) ==
    \/ pc[l] = "abandon" /\ Wrote(l, "recovery", NoTurn)
    \/ pc[l] = "write back" /\ Wrote(l, "write back", NoTurn)
    \/ pc[l] = "write intent" /\ Wrote(l, "intent", Turn(l, "intent"))
    \/ pc[l] = "mark" /\ Wrote(l, "intent", Turn(l, "started"))
    \/ pc[l] = "clear" /\ Wrote(l, "backpressure", NoTurn)
    \/ pc[l] = "finalize" /\ Wrote(l, "finalize", NoTurn)

LEMMA WriteEffect ==
    ASSUME NEW l, NEW rec, NEW how, Write(l, rec, how)
    PROVE  Wrote(l, how, rec.active)
BY DEF Write, Wrote

LEMMA StepRecords ==
    ASSUME RegistryInv, NEW l \in Launchers, LaunchStep(l)
    PROVE  UNCHANGED <<session, dropped>> \/ Recorded(l)
<1>1. session \in Records /\ LaunchInv(l)
  BY DEF RegistryInv, FilesInv, RegistryTypes
<1>2. CASE Begin(l) \/ Prepare(l) \/ Connect(l) \/ AcquireLease(l) \/ StartTurn(l) \/ FollowTurn(l) \/ CommitStep(l)
  BY <1>2 DEF Begin, Prepare, Connect, AcquireLease, StartTurn, FollowTurn, CommitStep
<1>3. CASE \/ ReadRecord(l, "intent", "write intent") \/ ReadRecord(l, "read clear", "clear")
           \/ ReadRecord(l, "read mark", "mark") \/ ReadRecord(l, "read final", "finalize")
  BY <1>3 DEF ReadRecord
<1>4. CASE Abandon(l)
  <2>1. PICK rec : rec = [session EXCEPT !.active = NoTurn]
    OBVIOUS
  <2>2. pc[l] = "abandon" /\ Write(l, rec, "recovery") /\ rec.active = NoTurn
    BY <1>1, <1>4, <2>1 DEF Abandon, Records
  <2>3. QED BY <2>2, WriteEffect DEF Recorded
<1>5. CASE WriteBack(l)
  <2>1. PICK rec : rec = NextRecord(copy[l])
    OBVIOUS
  <2>2. pc[l] = "write back" /\ (UNCHANGED <<session, dropped>> \/ Write(l, rec, "write back")) /\ rec.active = NoTurn
    BY <1>5, <2>1 DEF WriteBack, NextRecord
  <2>3. QED BY <2>2, WriteEffect DEF Recorded
<1>6. ASSUME NEW phase, NEW to, NEW from \in {"write intent", "mark"}, RecordTurnIntent(l, from, phase, to)
      PROVE  pc[l] = from /\ Wrote(l, "intent", Turn(l, phase))
  <2>1. PICK rec : rec = [copy[l] EXCEPT !.active = Turn(l, phase)]
    OBVIOUS
  <2>2. pc[l] = from /\ Write(l, rec, "intent")
    BY <1>6, <2>1 DEF RecordTurnIntent
  <2>3. copy[l] \in Records
    BY <1>1, <2>2 DEF LaunchInv, CopyTyped, Preparing
  <2>4. rec.active = Turn(l, phase)
    BY <2>1, <2>3 DEF Records
  <2>5. QED BY <2>2, <2>4, WriteEffect
<1>7. CASE ClearActiveTurnIfSafe(l)
  <2>1. PICK rec : rec = [copy[l] EXCEPT !.active = NoTurn]
    OBVIOUS
  <2>2. pc[l] = "clear" /\ (UNCHANGED <<session, dropped>> \/ Write(l, rec, "backpressure"))
    BY <1>7, <2>1 DEF ClearActiveTurnIfSafe
  <2>3. copy[l] \in Records
    BY <1>1, <2>2 DEF LaunchInv, CopyTyped, Preparing
  <2>4. rec.active = NoTurn
    BY <2>1, <2>3 DEF Records
  <2>5. QED BY <2>2, <2>4, WriteEffect DEF Recorded
<1>8. CASE FinalizeTurn(l)
  <2>1. PICK rec : rec = FinalizeCommittedTurn(copy[l], Turn(l, "started"))
    OBVIOUS
  <2>2. pc[l] = "finalize" /\ (UNCHANGED <<session, dropped>> \/ Write(l, rec, "finalize"))
    BY <1>8, <2>1 DEF FinalizeTurn
  <2>3. copy[l] \in Records
    BY <1>1, <2>2 DEF LaunchInv, CopyTyped, Preparing
  <2>4. rec.active = NoTurn
    BY <2>1, <2>3 DEF Records, FinalizeCommittedTurn
  <2>5. QED BY <2>2, <2>4, WriteEffect DEF Recorded
<1>9. CASE RecordTurnIntent(l, "write intent", "intent", "start turn")
  BY <1>6, <1>9 DEF Recorded
<1>10. CASE RecordTurnIntent(l, "mark", "started", "drain")
  BY <1>6, <1>10 DEF Recorded
<1>11. QED BY <1>2, <1>3, <1>4, <1>5, <1>7, <1>8, <1>9, <1>10 DEF LaunchStep

\* a step of one launch leaves the others where they are
LEMMA OthersStay ==
    ASSUME RegistryInv, NEW l \in Launchers, NEW m \in Launchers, m # l, LaunchStep(l)
    PROVE  pc'[m] = pc[m] /\ epoch'[m] = epoch[m] /\ attempt'[m] = attempt[m]
<1>1. RegistryTypes
  BY DEF RegistryInv, FilesInv
<1>2. CASE Begin(l) \/ Prepare(l) \/ Abandon(l) \/ Connect(l)
  BY <1>1, <1>2 DEF Begin, Prepare, Abandon, Connect, Halt, GiveUp, Goto, local, RegistryTypes
<1>3. CASE WriteBack(l) \/ AcquireLease(l) \/ StartTurn(l) \/ ClearActiveTurnIfSafe(l)
  BY <1>1, <1>3 DEF WriteBack, AcquireLease, StartTurn, ClearActiveTurnIfSafe, GiveUp, Goto, local, RegistryTypes
<1>4. CASE FollowTurn(l) \/ CommitStep(l) \/ FinalizeTurn(l)
  BY <1>1, <1>4 DEF FollowTurn, CommitStep, FinalizeTurn, Halt, GiveUp, Goto, RegistryTypes
<1>5. CASE \/ RecordTurnIntent(l, "write intent", "intent", "start turn")
           \/ RecordTurnIntent(l, "mark", "started", "drain")
  BY <1>1, <1>5 DEF RecordTurnIntent, Goto, local, RegistryTypes
<1>6. CASE \/ ReadRecord(l, "intent", "write intent") \/ ReadRecord(l, "read clear", "clear")
           \/ ReadRecord(l, "read mark", "mark") \/ ReadRecord(l, "read final", "finalize")
  BY <1>1, <1>6 DEF ReadRecord, Goto, local, RegistryTypes
<1>7. QED BY <1>2, <1>3, <1>4, <1>5, <1>6 DEF LaunchStep

LEMMA WhereItGoes ==
    ASSUME RegistryInv, NEW l \in Launchers, LaunchStep(l)
    PROVE  /\ pc'[l] = "abandon" => Recovery[l] = "continue"
           /\ pc'[l] \in Away => \/ session'.active = NoTurn
                                 \/ pc[l] \in Away /\ session' = session
           /\ pc'[l] \in {"read mark", "mark"} =>
                /\ pc[l] \in {"start turn", "read mark"} /\ session' = session
                /\ epoch'[l] = epoch[l] /\ attempt'[l] = attempt[l]
<1>1. RegistryTypes /\ session \in Records /\ LaunchInv(l)
  BY DEF RegistryInv, FilesInv, RegistryTypes
<1> DEFINE Rests == pc'[l] \in {"launch", "failed", "halted"}
<1>2. ASSUME GiveUp(l) \/ Halt(l) PROVE Rests
  BY <1>1, <1>2 DEF GiveUp, Halt, Goto, RegistryTypes
<1>3. CASE Begin(l)
  BY <1>1, <1>3 DEF Begin, Goto, RegistryTypes, Away
<1>4. CASE Prepare(l)
  <2>1. CASE Halt(l)
    BY <1>2, <2>1 DEF Away
  <2>2. CASE ~Halt(l)
    BY <1>1, <1>4, <2>2 DEF Prepare, continueRetry, Goto, RegistryTypes, Away
  <2>3. QED BY <2>1, <2>2
<1>5. CASE Abandon(l)
  <2>1. session'.active = NoTurn /\ pc'[l] = "resume thread"
    BY <1>1, <1>5 DEF Abandon, Write, Goto, Records, RegistryTypes
  <2>2. QED BY <2>1
<1>6. CASE Connect(l)
  <2>1. CASE GiveUp(l)
    BY <1>2, <2>1 DEF Away
  <2>2. CASE ~GiveUp(l)
    BY <1>1, <1>6, <2>2 DEF Connect, Goto, RegistryTypes, Away
  <2>3. QED BY <2>1, <2>2
<1>7. CASE WriteBack(l)
  <2>1. CASE GiveUp(l)
    BY <1>2, <2>1 DEF Away
  <2>2. CASE ~GiveUp(l)
    <3>1. PICK rec : rec = NextRecord(copy[l])
      OBVIOUS
    <3>2. Write(l, rec, "write back") /\ pc'[l] = "acquire" /\ rec.active = NoTurn
      BY <1>1, <1>7, <2>2, <3>1 DEF WriteBack, NextRecord, Goto, RegistryTypes
    <3>3. QED BY <3>2 DEF Write
  <2>3. QED BY <2>1, <2>2
<1>8. CASE AcquireLease(l)
  <2>1. CASE GiveUp(l)
    BY <1>2, <2>1 DEF Away
  <2>2. CASE ~GiveUp(l)
    BY <1>1, <1>8, <2>2 DEF AcquireLease, Goto, RegistryTypes, Away
  <2>3. QED BY <2>1, <2>2
<1>9. CASE StartTurn(l)
  <2>1. CASE GiveUp(l)
    BY <1>2, <2>1 DEF Away
  <2>2. CASE ~GiveUp(l)
    BY <1>1, <1>9, <2>2 DEF StartTurn, Goto, RegistryTypes, Away
  <2>3. QED BY <2>1, <2>2
<1>10. CASE ClearActiveTurnIfSafe(l)
  BY <1>2, <1>10 DEF ClearActiveTurnIfSafe, Away
<1>11. CASE FollowTurn(l)
  <2>1. CASE GiveUp(l) \/ Halt(l)
    BY <1>2, <2>1 DEF Away
  <2>2. CASE ~(GiveUp(l) \/ Halt(l))
    BY <1>1, <1>11, <2>2 DEF FollowTurn, Goto, RegistryTypes, Away
  <2>3. QED BY <2>1, <2>2
<1>12. CASE CommitStep(l) \/ FinalizeTurn(l)
  BY <1>1, <1>12 DEF CommitStep, FinalizeTurn, Goto, RegistryTypes, Away
<1>13. CASE \/ RecordTurnIntent(l, "write intent", "intent", "start turn")
            \/ RecordTurnIntent(l, "mark", "started", "drain")
  BY <1>1, <1>13 DEF RecordTurnIntent, Goto, RegistryTypes, Away
<1>14. CASE \/ ReadRecord(l, "intent", "write intent") \/ ReadRecord(l, "read clear", "clear")
            \/ ReadRecord(l, "read mark", "mark") \/ ReadRecord(l, "read final", "finalize")
  BY <1>1, <1>14 DEF ReadRecord, Goto, local, RegistryTypes, Away
<1>15. QED BY <1>3, <1>4, <1>5, <1>6, <1>7, <1>8, <1>9, <1>10, <1>11, <1>12, <1>13, <1>14 DEF LaunchStep

\* who takes a turn off the record
LEMMA WhoTakes ==
    ASSUME RegistryInv, LossInv, NEW l \in Launchers, Recorded(l),
           session.active # NoTurn, Key(session'.active) # Key(session.active)
    PROVE  \/ pc[l] \in {"finalize", "clear"}
           \/ pc[l] = "abandon" /\ Recovery[l] = "continue"
           \/ pc[l] \in {"write back", "write intent"} /\ session.active.owner # l
<1>1. SeenFrom(l)
  BY DEF LossInv
<1>2. CASE pc[l] = "mark"
  <2>1. session.active = Turn(l, "intent") /\ session'.active = Turn(l, "started")
    BY <1>1, <1>2 DEF SeenFrom, Recorded, Wrote
  <2>2. QED BY <2>1, TurnFacts
<1>3. QED BY <1>1, <1>2 DEF SeenFrom, Recorded, Away

LEMMA LossStep ==
    ASSUME RegistryInv, LossInv, NEW l \in Launchers, LaunchStep(l)
    PROVE  LossInv'
<1>1. session \in Records /\ session.active \in Turns /\ (\A m \in Launchers : LaunchInv(m) /\ SeenFrom(m))
  BY DEF RegistryInv, FilesInv, RegistryTypes, LossInv, Records
<1>2. ASSUME NEW d \in dropped' PROVE Explained(d)
  <2>1. CASE d \in dropped
    BY <2>1 DEF LossInv
  <2>2. CASE d \notin dropped
    <3>1. Recorded(l)
      BY <2>2, StepRecords
    <3>2. PICK how, a : Wrote(l, how, a) /\ (how = "recovery" => pc[l] = "abandon")
                        /\ (how \in {"write back", "intent"} => pc[l] \in {"write back", "write intent", "mark"})
      <4> DEFINE Fits(how) == /\ how = "recovery" => pc[l] = "abandon"
                              /\ how \in {"write back", "intent"} => pc[l] \in {"write back", "write intent", "mark"}
      <4>1. Fits("backpressure") /\ Fits("finalize") /\ (pc[l] = "abandon" => Fits("recovery"))
        OBVIOUS
      <4>2. /\ pc[l] = "write back" => Fits("write back")
            /\ pc[l] \in {"write intent", "mark"} => Fits("intent")
        OBVIOUS
      <4>3. \E how, a : Wrote(l, how, a) /\ Fits(how)
        <5> HIDE DEF Fits
        <5>1. CASE pc[l] = "abandon" /\ Wrote(l, "recovery", NoTurn)
          BY <4>1, <5>1
        <5>2. CASE pc[l] = "write back" /\ Wrote(l, "write back", NoTurn)
          BY <4>2, <5>2
        <5>3. CASE pc[l] = "write intent" /\ Wrote(l, "intent", Turn(l, "intent"))
          BY <4>2, <5>3
        <5>4. CASE pc[l] = "mark" /\ Wrote(l, "intent", Turn(l, "started"))
          BY <4>2, <5>4
        <5>5. CASE pc[l] = "clear" /\ Wrote(l, "backpressure", NoTurn)
          BY <4>1, <5>5
        <5>6. CASE pc[l] = "finalize" /\ Wrote(l, "finalize", NoTurn)
          BY <4>1, <5>6
        <5>7. QED BY <3>1, <5>1, <5>2, <5>3, <5>4, <5>5, <5>6 DEF Recorded
      <4>4. QED BY <4>3
    <3>3. session.active # NoTurn /\ Key(session'.active) # Key(session.active) /\ d = <<Key(session.active), how, l>>
      BY <2>2, <3>2 DEF Wrote
    <3>4. Key(session.active)[1] = session.active.owner
      BY DEF Key
    <3>5. d[1][1] = session.active.owner /\ d[2] = how /\ d[3] = l
      BY <3>3, <3>4
    <3>6. QED BY <3>1, <3>2, <3>3, <3>5, WhoTakes DEF Explained
  <2>3. QED BY <2>1, <2>2
<1>3. SeenFrom(l)'
  <2>1. pc'[l] \in Away => session'.active.owner # l
    <3>1. CASE session'.active = NoTurn
      BY <3>1, RecordFacts, LiveAssumption
    <3>2. CASE pc[l] \in Away /\ session' = session
      BY <1>1, <3>2 DEF SeenFrom
    <3>3. QED BY <3>1, <3>2, WhereItGoes
  <2>2. pc'[l] \in {"read mark", "mark"} => session'.active \in {NoTurn, Turn(l, "intent")'}
    BY <1>1, WhereItGoes DEF SeenFrom, LaunchInv, IntentOnRecord, Turn
  <2>3. QED BY <2>1, <2>2, WhereItGoes DEF SeenFrom
<1>4. ASSUME NEW m \in Launchers, m # l PROVE SeenFrom(m)'
  <2>1. pc'[m] = pc[m] /\ Turn(m, "intent")' = Turn(m, "intent")
    BY <1>4, OthersStay DEF Turn
  <2>2. session'.active \in {session.active, NoTurn, Turn(l, "intent"), Turn(l, "started")}
    BY StepRecords DEF Recorded, Wrote
  <2>3. session'.active.owner \in {session.active.owner, "none", l}
    BY <2>2, RecordFacts, TurnFacts
  <2>4. pc[m] \in Away => session'.active.owner # m
    BY <1>1, <1>4, <2>3, LiveAssumption DEF SeenFrom
  <2>5. pc[m] \in {"read mark", "mark"} => session'.active \in {session.active, NoTurn}
    <3>1. SUFFICES ASSUME pc[m] \in {"read mark", "mark"} PROVE session'.active \in {session.active, NoTurn}
      OBVIOUS
    <3>2. pc[m] \in Driving
      BY <3>1 DEF Driving, UnderLease
    <3>3. pc[l] \notin {"write intent", "mark"}
      BY <1>4, <3>2, Exclusive DEF Driving, UnderLease
    <3>4. QED BY <3>3, StepRecords DEF Recorded, Wrote
  <2>6. QED BY <1>1, <2>1, <2>4, <2>5 DEF SeenFrom
<1>5. QED BY <1>2, <1>3, <1>4 DEF LossInv

LEMMA LossInitInv == LiveInit => LossInv
BY LiveAssumption, RecordFacts DEF LiveInit, LossInv, SeenFrom, Away

LEMMA LossNextInv == RegistryInv /\ LossInv /\ [LiveNext]_liveVars => LossInv'
<1>1. SUFFICES ASSUME RegistryInv, LossInv, [LiveNext]_liveVars PROVE LossInv'
  OBVIOUS
<1>2. ASSUME NEW l \in Launchers, LaunchStep(l) PROVE LossInv'
  BY <1>1, <1>2, LossStep
<1>3. ASSUME NEW l \in Launchers, Crash(l) \/ Resume(l) PROVE LossInv'
  <2>1. UNCHANGED <<session, dropped>> /\ RegistryTypes
    BY <1>1, <1>3 DEF Crash, Resume, RegistryInv, FilesInv
  <2>2. ASSUME NEW m \in Launchers PROVE SeenFrom(m)'
    <3>1. CASE m = l
      <4>1. pc'[l] \in {"dead", "done", "begin"}
        BY <1>3, <2>1 DEF Crash, Resume, Goto, RegistryTypes
      <4>2. QED BY <3>1, <4>1 DEF SeenFrom, Away
    <3>2. CASE m # l
      <4>1. pc'[m] = pc[m] /\ attempt'[m] = attempt[m] /\ epoch'[m] = epoch[m]
        BY <1>3, <2>1, <3>2 DEF Crash, Resume, Goto, RegistryTypes
      <4>2. QED BY <1>1, <2>1, <4>1 DEF LossInv, SeenFrom, Turn
    <3>3. QED BY <3>1, <3>2
  <2>3. QED BY <1>1, <2>1, <2>2 DEF LossInv
<1>4. CASE LeaseExpires \/ Install \/ UNCHANGED liveVars
  BY <1>1, <1>4 DEF LeaseExpires, Install, liveVars, local, LossInv, SeenFrom, Turn
<1>5. QED BY <1>1, <1>2, <1>3, <1>4 DEF LiveNext

LEMMA RegistryInvSafe == RegistryInv /\ LossInv => RegistrySafe
<1>1. SUFFICES ASSUME RegistryInv, LossInv PROVE RegistrySafe
  OBVIOUS
<1>2. LiveTypeOK
  BY <1>1, RecordFacts DEF RegistryInv, FilesInv, RegistryTypes, LiveTypeOK, Records, Turns, Leases, NoTurn
<1>3. TurnUnderLease
  BY <1>1 DEF RegistryInv, LaunchInv, LeaseHeld, TurnUnderLease, Driving
<1>4. LastIsCommitted
  BY <1>1 DEF RegistryInv, FilesInv, LastCommitted, LastIsCommitted
<1>5. ASSUME NEW d \in dropped, d[2] \in {"recovery", "write back", "intent"} PROVE LeftTheRecord(d)
  BY <1>1, <1>5 DEF LossInv, Explained, LeftTheRecord
<1>6. ReplayMarkerKept
  BY <1>1, <1>5 DEF RegistryInv, FilesInv, Marked, ReplayMarkerKept
<1>7. QED BY <1>2, <1>3, <1>4, <1>6 DEF RegistrySafe

\* For any number of launches, attempts, resumes and crashes of the runs that
\* name one session: a launch drives the session only under its lease; a turn
\* the provider may have started is on record until its step is committed, but
\* for one that a recovery:continue abandoned or that another launch of the
\* session wrote over (LeftTheRecord); and what the record says was committed was.
THEOREM RegistryIsSafe == LiveSpec => []RegistrySafe
<1>1. LiveSpec => []RegistryInv
  BY LiveInitInv, LiveNextInv, PTL DEF LiveSpec
<1>2. LiveSpec => []LossInv
  BY <1>1, LossInitInv, LossNextInv, PTL DEF LiveSpec
<1>3. QED BY <1>1, <1>2, RegistryInvSafe, PTL

\* a record that is there keeps its binary: under the lease a launch writes
\* back what it read, and the write back of prepareSession checks for drift
LEMMA BinaryKept ==
    ASSUME RegistryInv, [LiveNext]_liveVars, session # NoSession
    PROVE  session'.binary = session.binary
<1>1. session \in Records /\ (\A l \in Launchers : LaunchInv(l))
  BY DEF RegistryInv, FilesInv, RegistryTypes
<1>2. CASE session' = session
  BY <1>2
<1>3. ASSUME NEW l \in Launchers, Abandon(l) PROVE session'.binary = session.binary
  BY <1>1, <1>3 DEF Abandon, Write, Records
<1>4. ASSUME NEW l \in Launchers, WriteBack(l) PROVE session'.binary = session.binary
  BY <1>4 DEF WriteBack, Write, Drifted
<1>5. ASSUME NEW l \in Launchers, NEW phase, NEW to,
             RecordTurnIntent(l, "write intent", phase, to) \/ RecordTurnIntent(l, "mark", phase, to)
      PROVE  session'.binary = session.binary
  <2>1. pc[l] \in {"write intent", "mark"} /\ session' = [copy[l] EXCEPT !.active = Turn(l, phase)]
    BY <1>5 DEF RecordTurnIntent, Write
  <2>2. copy[l] \in Records /\ copy[l].binary = session.binary
    BY <1>1, <2>1 DEF LaunchInv, CopyTyped, Preparing, CopyIsCurrent
  <2>3. QED BY <2>1, <2>2 DEF Records
<1>6. ASSUME NEW l \in Launchers, ClearActiveTurnIfSafe(l) \/ FinalizeTurn(l)
      PROVE  session'.binary = session.binary
  <2>1. pc[l] \in {"clear", "finalize"}
    BY <1>6 DEF ClearActiveTurnIfSafe, FinalizeTurn
  <2>2. copy[l] \in Records /\ copy[l].binary = session.binary
    BY <1>1, <2>1 DEF LaunchInv, CopyTyped, Preparing, CopyIsCurrent
  <2>3. QED BY <1>6, <2>2 DEF ClearActiveTurnIfSafe, FinalizeTurn, Write, FinalizeCommittedTurn, Records
<1>7. ASSUME NEW l \in Launchers, LaunchStep(l) PROVE session'.binary = session.binary
  <2>1. CASE \/ Abandon(l) \/ WriteBack(l) \/ ClearActiveTurnIfSafe(l) \/ FinalizeTurn(l)
             \/ RecordTurnIntent(l, "write intent", "intent", "start turn")
             \/ RecordTurnIntent(l, "mark", "started", "drain")
    BY <1>3, <1>4, <1>5, <1>6, <2>1
  <2>2. CASE Begin(l) \/ Prepare(l) \/ Connect(l) \/ AcquireLease(l) \/ StartTurn(l) \/ FollowTurn(l) \/ CommitStep(l)
    BY <2>2 DEF Begin, Prepare, Connect, AcquireLease, StartTurn, FollowTurn, CommitStep
  <2>3. CASE \/ ReadRecord(l, "intent", "write intent") \/ ReadRecord(l, "read clear", "clear")
             \/ ReadRecord(l, "read mark", "mark") \/ ReadRecord(l, "read final", "finalize")
    BY <2>3 DEF ReadRecord
  <2>4. QED BY <1>7, <2>1, <2>2, <2>3 DEF LaunchStep
<1>8. CASE LiveNext
  BY <1>7, <1>8 DEF LiveNext, Crash, Resume, LeaseExpires, Install
<1>9. CASE UNCHANGED liveVars
  BY <1>9 DEF liveVars
<1>10. QED BY <1>8, <1>9

\* what a launch at the finalizer or behind backpressure clears is its own turn
LEMMA OwnCleared ==
    ASSUME RegistryInv, [LiveNext]_liveVars, NEW l \in Launchers,
           pc[l] \in {"finalize", "clear"}, pc'[l] \notin {pc[l], "dead"},
           session.active # NoTurn, session'.active = NoTurn
    PROVE  session.active.owner = l
<1>1. pc \in [Launchers -> Labels] /\ session \in Records /\ LaunchInv(l)
  BY DEF RegistryInv, FilesInv, RegistryTypes
<1>2. ASSUME NEW m \in Launchers, LaunchStep(m) PROVE m = l
  BY <1>1, <1>2 DEF LaunchStep, Begin, Prepare, Abandon, Connect, WriteBack, AcquireLease, ReadRecord, RecordTurnIntent,
     StartTurn, ClearActiveTurnIfSafe, FollowTurn, CommitStep, FinalizeTurn, Goto, GiveUp, Halt
<1>3. ASSUME NEW m \in Launchers, Crash(m) \/ Resume(m) PROVE FALSE
  BY <1>1, <1>3 DEF Crash, Resume, Goto
<1>4. LaunchStep(l)
  BY <1>1, <1>2, <1>3 DEF LiveNext, LeaseExpires, Install, liveVars
<1>5. ClearActiveTurnIfSafe(l) \/ FinalizeTurn(l)
  BY <1>4 DEF LaunchStep, Begin, Prepare, Abandon, Connect, WriteBack, AcquireLease, ReadRecord, RecordTurnIntent,
     StartTurn, FollowTurn, CommitStep
<1>6. CASE ClearActiveTurnIfSafe(l)
  BY <1>1, <1>6, TurnFacts DEF ClearActiveTurnIfSafe, LaunchInv, IntentOnRecord
<1>7. CASE FinalizeTurn(l)
  <2>1. pc[l] = "finalize" /\ activeTurnMatchesCommit(copy[l].active, Turn(l, "started"))
    BY <1>7 DEF FinalizeTurn
  <2>2. session.active = Turn(l, "started")
    BY <1>1, <2>1 DEF LaunchInv, CopyIsCurrent, activeTurnMatchesCommit
  <2>3. QED BY <2>2, TurnFacts
<1>8. QED BY <1>5, <1>6, <1>7

\* the finalizer and the clearing take their own launch's turn, the others what WhoTakes says
LEMMA TakenOff ==
    ASSUME RegistryInv, LossInv, [LiveNext]_liveVars, NEW l \in Launchers,
           pc'[l] # pc[l], session.active # NoTurn, Key(session'.active) # Key(session.active)
    PROVE  \/ pc[l] \in {"finalize", "clear"} /\ session.active.owner = l
           \/ pc[l] = "abandon" /\ Recovery[l] = "continue"
           \/ pc[l] \in {"write back", "write intent"} /\ session.active.owner # l
<1>1. ASSUME NEW m \in Launchers, LaunchStep(m) PROVE m = l
  BY <1>1, OthersStay
<1>2. ASSUME NEW m \in Launchers, Crash(m) \/ Resume(m) PROVE FALSE
  BY <1>2 DEF Crash, Resume
<1>3. LaunchStep(l)
  BY <1>1, <1>2 DEF LiveNext, LeaseExpires, Install, liveVars
<1>4. Recorded(l)
  BY <1>3, StepRecords
<1>5. CASE pc[l] \notin {"finalize", "clear"}
  BY <1>4, <1>5, WhoTakes
<1>6. CASE pc[l] \in {"finalize", "clear"}
  <2>1. session'.active = NoTurn /\ pc'[l] # "dead"
    <3>1. session'.active = NoTurn
      BY <1>4, <1>6 DEF Recorded, Wrote
    <3>2. pc'[l] \in {"launch", "failed", "done"}
      BY <1>3, <1>6 DEF LaunchStep, Begin, Prepare, Abandon, Connect, WriteBack, AcquireLease, ReadRecord,
         RecordTurnIntent, StartTurn, ClearActiveTurnIfSafe, FollowTurn, CommitStep, FinalizeTurn, Goto, GiveUp,
         RegistryInv, FilesInv, RegistryTypes
    <3>3. QED BY <3>1, <3>2
  <2>2. QED BY <1>6, <2>1, OwnCleared
<1>7. QED BY <1>5, <1>6

\* For any number of launches: a launch ends its own turn on record, takes another
\* launch's only by a recovery or by a blind write, and no launch moves a session
\* to another path.
THEOREM RegistryStepsHold == LiveSpec => RegistrySteps
<1>1. LiveSpec => []RegistryInv
  BY LiveInitInv, LiveNextInv, PTL DEF LiveSpec
<1>2. LiveSpec => []LossInv
  BY <1>1, LossInitInv, LossNextInv, PTL DEF LiveSpec
<1>3. RegistryInv /\ LossInv /\ [LiveNext]_liveVars =>
        [\A l \in Launchers :
            /\ pc'[l] # pc[l] /\ session.active # NoTurn /\ Key(session'.active) # Key(session.active)
            => \/ pc[l] \in {"finalize", "clear"} /\ session.active.owner = l
               \/ pc[l] = "abandon" /\ Recovery[l] = "continue"
               \/ pc[l] \in {"write back", "write intent"} /\ session.active.owner # l]_liveVars
  BY TakenOff
<1>4. RegistryInv /\ [LiveNext]_liveVars => [session # NoSession => session'.binary = session.binary]_liveVars
  BY BinaryKept
<1>5. LiveSpec => TurnTakenOff
  BY <1>1, <1>2, <1>3, PTL DEF LiveSpec, TurnTakenOff
<1>6. LiveSpec => PathPinned
  BY <1>1, <1>4, PTL DEF LiveSpec, PathPinned
<1>7. QED BY <1>5, <1>6 DEF RegistrySteps

-----------------------------------------------------------------------------
(* A launch of a CLI.  What B made of the lines, line by line, is what      *)
(* their last ones say.                                                     *)

Stream == claudeStream \cup codexStream \cup droidStream \cup gooseStream
Parsed == Stream \ Unparsed
Reductions ==
  [kind : {"none", "ok", "unparseable", "auth", "fatal"}, text : {"none", "text", "prose", "blank"},
   done : BOOLEAN, failed : {"none", "mute", "fail", "bad400"}, notice : {"none", "notice", "notice400"},
   diag : {"none", "junk", "config"}]
Results == [err : BOOLEAN, code : {0, 1, 99}, stderr : {"none", "text", "config"}]

AdapterTyped ==
  /\ adapter \in [name : AdapterNames, schema : BOOLEAN]
  /\ cli \in [left : 0 .. MaxLines[adapter.name], result : Results]
  /\ chunks \in Seq(Alphabet(adapter.name)) /\ Len(chunks) <= ChunkCap
  /\ fwd \in [pc : {"take", "write", "drain", "done"}, line : Stream \cup {"none"}]
  /\ scan \in [pc : {"scan", "emit", "result", "returned"}, line : Stream \cup {"none"}, pend : 0 .. 2]
  /\ red \in Reductions /\ events \in 0 .. EventCap
  /\ outcome \in {"none", "ok", "unparseable", "permission", "invalid", "launch", "exit"}
  /\ lines \in Seq(Parsed)

\* where the two goroutines and the process are
Positions ==
  /\ fwd.pc = "write" => fwd.line \in Alphabet(adapter.name)
  /\ fwd.pc = "done" => chunks = <<>> /\ ~Running
  /\ scan.pc = "emit" => scan.line \in Alphabet(adapter.name) \ Unparsed
  /\ scan.line = "long" => scan.pc \in {"result", "returned"}
  /\ scan.pc = "result" /\ scan.line # "long" => fwd.pc = "done"
  /\ outcome # "none" => scan.pc = "returned"
  /\ outcome \notin {"none", "launch"} => ~Running
  /\ \A i \in DOMAIN lines : lines[i] \in Alphabet(adapter.name)

\* the last line of a kind, in any list of lines
LastIn(l, S) == LET D == {i \in DOMAIN l : l[i] \in S}
                IN  IF D = {} THEN "none" ELSE l[CHOOSE i \in D : \A j \in D : j <= i]
HasLast(l, S) == LET D == {i \in DOMAIN l : l[i] \in S}
                 IN  D = {} \/ \E i \in D : \A j \in D : j <= i

Messages == {"text", "prose", "blank"}
Answers == {"text", "prose"}
Failures == {"bad400", "fail"}
Recoveries == {"fail", "mute"}
Notices == {"notice", "notice400"}
Ends == {"done"}
Said == {"done", "garbled", "spent", "denied", "fail"}
KindSets == {Messages, Answers, Failures, Recoveries, Notices, Ends, Said}

\* what a verdict of claude or droid makes of the launch
VerdictOf(line) ==
  IF adapter.name = "droid"
    THEN CASE line \in {"done", "garbled"} -> resultFromCompletion(line, adapter.schema)
           [] line \in {"denied", "fail"} -> errorFromEvent(line)
           [] OTHER -> "none"
    ELSE ExtractResult(line)

Kinds(l, r, short) == r.kind = VerdictOf(LastIn(l, Said)) \/ (short /\ LastIn(l, Said) = "none" /\ r.kind = "fatal")
TurnRead(l, r) ==
  /\ r.text = LastIn(l, Messages) /\ (r.done <=> LastIn(l, Ends) # "none")
  /\ r.notice = LastIn(l, Notices)
  /\ IF LastIn(l, Failures) # "none" THEN r.failed = LastIn(l, Failures) ELSE r.failed \in {"none", "mute"}
AnswerRead(l, r, short) ==
  /\ r.text \in {"none", "text", "prose"} /\ (r.text = "none" <=> LastIn(l, Answers) = "none")
  /\ r.done <=> LastIn(l, Ends) # "none"
  /\ r.failed = "none" => LastIn(l, Recoveries) # "fail"

Reduced(l, r, short) ==
  /\ adapter.name \in {"claude", "session", "droid"} => Kinds(l, r, short)
  /\ adapter.name = "codex" => TurnRead(l, r)
  /\ adapter.name = "goose" => AnswerRead(l, r, short)

AdapterInv ==
  /\ AdapterTyped /\ Positions
  /\ \A S \in KindSets : HasLast(lines, S)
  /\ Reduced(lines, red, scan.line = "long")
  /\ OkIsEarned /\ PermanentIsStated /\ WholeOutput

\* The adapters launched.
LEMMA AdapterFacts ==
  ASSUME AdapterTyped
  PROVE  /\ adapter.name \in {"claude", "session", "codex", "droid", "goose"} /\ adapter.schema \in BOOLEAN
         /\ Alphabet(adapter.name) \subseteq Stream /\ MaxLines[adapter.name] \in Nat
         /\ ChunkCap \in Nat /\ EventCap \in Nat
<1>1. adapter.name \in AdapterNames /\ adapter.schema \in BOOLEAN
  BY DEF AdapterTyped
<1>2. adapter.name \in {"claude", "session", "codex", "droid", "goose"}
  BY <1>1, AdapterConstants
<1>3. Alphabet(adapter.name) \subseteq Stream
  BY <1>2 DEF Alphabet, Stream
<1> QED
  BY <1>1, <1>2, <1>3, AdapterConstants

\* The empty transcript.
LEMMA NoLast ==
  ASSUME NEW S
  PROVE  HasLast(<<>>, S) /\ LastIn(<<>>, S) = "none"
<1>1. {i \in DOMAIN <<>> : <<>>[i] \in S} = {}
  OBVIOUS
<1> QED
  BY <1>1 DEF HasLast, LastIn

\* The greatest of a set of places is the last.
LEMMA LastAt ==
  ASSUME NEW l, NEW S, DOMAIN l \subseteq Nat, NEW i \in DOMAIN l, l[i] \in S, \A j \in DOMAIN l : l[j] \in S => j <= i
  PROVE  HasLast(l, S) /\ LastIn(l, S) = l[i]
<1> DEFINE D == {k \in DOMAIN l : l[k] \in S}
<1>1. i \in D /\ \A j \in D : j <= i
  OBVIOUS
<1>2. D # {} /\ \E k \in D : \A j \in D : j <= k
  BY <1>1
<1> DEFINE g == CHOOSE k \in D : \A j \in D : j <= k
<1>3. g \in D /\ \A j \in D : j <= g
  BY <1>2
<1>4. D \subseteq Nat
  OBVIOUS
<1> HIDE DEF D
<1>5. i <= g /\ g <= i /\ g \in Nat /\ i \in Nat
  BY <1>1, <1>3, <1>4
<1> HIDE DEF g
<1>6. g = i
  BY <1>5
<1> QED
  BY <1>2, <1>6 DEF HasLast, LastIn, D, g

\* One more line is the last of its kinds, and leaves the last of the others.
LEMMA LastGrows ==
  ASSUME NEW l \in Seq(Parsed), NEW x \in Parsed, NEW S, HasLast(l, S)
  PROVE  HasLast(Append(l, x), S) /\ LastIn(Append(l, x), S) = IF x \in S THEN x ELSE LastIn(l, S)
<1> DEFINE m == Append(l, x)
           n == Len(l) + 1
<1>1. n \in Nat /\ DOMAIN m = 1 .. n /\ DOMAIN l = 1 .. Len(l) /\ Len(l) \in Nat /\ m[n] = x
      /\ \A i \in 1 .. Len(l) : m[i] = l[i]
  OBVIOUS
<1> HIDE DEF m
<1>2. CASE x \in S
  <2>1. HasLast(m, S) /\ LastIn(m, S) = m[n]
    BY <1>1, <1>2, LastAt
  <2> QED
    BY <1>1, <1>2, <2>1 DEF m
<1>3. CASE x \notin S
  <2>1. {i \in DOMAIN m : m[i] \in S} = {i \in DOMAIN l : l[i] \in S}
    BY <1>1, <1>3
  <2>2. CASE {i \in DOMAIN l : l[i] \in S} = {}
    BY <1>3, <2>1, <2>2 DEF HasLast, LastIn, m
  <2>3. CASE {i \in DOMAIN l : l[i] \in S} # {}
    <3>1. PICK i \in DOMAIN l : l[i] \in S /\ \A j \in DOMAIN l : l[j] \in S => j <= i
      BY <2>3 DEF HasLast
    <3>2. LastIn(l, S) = l[i]
      BY <1>1, <3>1, LastAt
    <3>3. i \in DOMAIN m /\ m[i] \in S /\ \A j \in DOMAIN m : m[j] \in S => j <= i
      <4>1. i \in DOMAIN m /\ m[i] \in S
        BY <1>1, <3>1
      <4>2. ASSUME NEW j \in DOMAIN m, m[j] \in S PROVE j <= i
        <5>1. j # n
          BY <1>1, <1>3, <4>2
        <5>2. j \in DOMAIN l /\ m[j] = l[j]
          BY <1>1, <5>1
        <5> QED
          BY <3>1, <4>2, <5>2
      <4> QED
        BY <4>1, <4>2
    <3>4. HasLast(m, S) /\ LastIn(m, S) = m[i]
      <4>1. DOMAIN m \subseteq Nat
        BY <1>1
      <4> QED
        BY <3>3, <4>1, LastAt
    <3> QED
      BY <1>1, <1>3, <3>1, <3>2, <3>4 DEF m
  <2> QED
    BY <2>2, <2>3
<1> QED
  BY <1>2, <1>3

\* A last line is a line, and of its kind.
LEMMA LastWithin ==
  ASSUME NEW l, NEW S, HasLast(l, S), LastIn(l, S) # "none"
  PROVE  LastIn(l, S) \in S /\ \E i \in DOMAIN l : LastIn(l, S) = l[i]
<1> DEFINE D == {k \in DOMAIN l : l[k] \in S}
<1>1. D # {} /\ \E k \in D : \A j \in D : j <= k
  BY DEF HasLast, LastIn
<1> DEFINE g == CHOOSE k \in D : \A j \in D : j <= k
<1>2. g \in D
  BY <1>1
<1> QED
  BY <1>1, <1>2 DEF LastIn

\* A verdict of the stream, and nothing else, has a kind.
LEMMA VerdictsSpeak ==
  ASSUME AdapterTyped, NEW x \in Stream \cup {"none"}
  PROVE  /\ VerdictOf(x) \in {"none", "ok", "unparseable", "auth", "fatal"}
         /\ adapter.name # "droid" => (x \in Said <=> VerdictOf(x) # "none")
         /\ adapter.name = "droid" /\ x \in droidStream => (x \in Said <=> VerdictOf(x) # "none")
<1>1. CASE adapter.name = "droid"
  <2>1. adapter.schema \in BOOLEAN
    BY AdapterFacts
  <2>2. VerdictOf(x) = CASE x \in {"done", "garbled"} -> resultFromCompletion(x, adapter.schema)
                         [] x \in {"denied", "fail"} -> errorFromEvent(x)
                         [] OTHER -> "none"
    BY <1>1 DEF VerdictOf
  <2>3. CASE x \in {"done", "garbled"}
    BY <1>1, <2>2, <2>3 DEF resultFromCompletion, Said
  <2>4. CASE x \in {"denied", "fail"}
    BY <1>1, <2>2, <2>4 DEF errorFromEvent, Said
  <2>5. CASE x \notin {"done", "garbled", "denied", "fail"}
    BY <1>1, <2>2, <2>5 DEF droidStream, Said
  <2> QED
    BY <2>3, <2>4, <2>5
<1>2. CASE adapter.name # "droid"
  <2>1. VerdictOf(x) = ExtractResult(x)
    BY <1>2 DEF VerdictOf
  <2> QED
    BY <1>2, <2>1 DEF ExtractResult, Said
<1> QED
  BY <1>1, <1>2

\* claude, session and droid: the reduction takes the verdict of a line that has one.
LEMMA KindReduced ==
  ASSUME AdapterTyped, adapter.name \in {"claude", "session", "droid"}, NEW x \in Alphabet(adapter.name)
  PROVE  /\ Reduce(red, x) \in Reductions
         /\ Reduce(red, x).kind = IF VerdictOf(x) = "none" THEN red.kind ELSE VerdictOf(x)
<1>1. red \in Reductions /\ x \in Stream /\ VerdictOf(x) \in {"none", "ok", "unparseable", "auth", "fatal"}
  BY AdapterFacts, VerdictsSpeak DEF AdapterTyped
<1>2. CASE adapter.name \in {"claude", "session"}
  <2>1. Reduce(red, x) = claudeLine(red, x) /\ VerdictOf(x) = ExtractResult(x)
    BY <1>2 DEF Reduce, VerdictOf
  <2>2. Reduce(red, x) = [red EXCEPT !.kind = IF VerdictOf(x) = "none" THEN red.kind ELSE VerdictOf(x)]
    BY <1>1, <2>1 DEF claudeLine, Reductions
  <2> QED
    BY <1>1, <2>2 DEF Reductions
<1>3. CASE adapter.name = "droid"
  <2>1. Reduce(red, x) = droidLine(red, x, adapter.schema)
    BY <1>3 DEF Reduce
  <2>2. CASE x \in {"done", "garbled"}
    <3>1. VerdictOf(x) = resultFromCompletion(x, adapter.schema) /\ VerdictOf(x) # "none"
      BY <1>3, <2>2 DEF VerdictOf, resultFromCompletion
    <3>2. Reduce(red, x) = [red EXCEPT !.kind = VerdictOf(x)]
      BY <2>1, <2>2, <3>1 DEF droidLine
    <3> QED
      BY <1>1, <3>1, <3>2 DEF Reductions
  <2>3. CASE x \in {"denied", "fail"}
    <3>1. VerdictOf(x) = errorFromEvent(x) /\ VerdictOf(x) # "none"
      BY <1>3, <2>3 DEF VerdictOf, errorFromEvent
    <3>2. Reduce(red, x) = [red EXCEPT !.kind = VerdictOf(x)]
      BY <2>1, <2>3, <3>1 DEF droidLine
    <3> QED
      BY <1>1, <3>1, <3>2 DEF Reductions
  <2>4. CASE x \notin {"done", "garbled", "denied", "fail"}
    <3>1. Reduce(red, x) = red /\ VerdictOf(x) = "none"
      BY <1>3, <2>1, <2>4 DEF droidLine, VerdictOf
    <3> QED
      BY <1>1, <3>1
  <2> QED
    BY <2>2, <2>3, <2>4
<1> QED
  BY <1>2, <1>3

\* An emitted line: the reduction says what the longer transcript says.
LEMMA Emitted ==
  ASSUME AdapterTyped, NEW x \in Alphabet(adapter.name) \ Unparsed, \A S \in KindSets : HasLast(lines, S),
         Reduced(lines, red, FALSE)
  PROVE  LET l == Append(lines, x)
         IN  /\ l \in Seq(Parsed) /\ Reduce(red, x) \in Reductions
             /\ \A S \in KindSets : HasLast(l, S)
             /\ Reduced(l, Reduce(red, x), FALSE)
<1> DEFINE l == Append(lines, x)
           r == Reduce(red, x)
<1>1. x \in Parsed /\ lines \in Seq(Parsed) /\ red \in Reductions /\ x \in Stream
      /\ adapter.name \in {"claude", "session", "codex", "droid", "goose"}
  BY AdapterFacts DEF Parsed, AdapterTyped
<1>2. l \in Seq(Parsed)
  BY <1>1
<1>3. \A S \in KindSets : HasLast(l, S) /\ LastIn(l, S) = IF x \in S THEN x ELSE LastIn(lines, S)
  BY <1>1, LastGrows
<1>4. Messages \in KindSets /\ Answers \in KindSets /\ Failures \in KindSets /\ Recoveries \in KindSets
      /\ Notices \in KindSets /\ Ends \in KindSets /\ Said \in KindSets
  BY DEF KindSets
<1> HIDE DEF l
<1>5. CASE adapter.name \in {"claude", "session", "droid"}
  <2>1. r \in Reductions /\ r.kind = IF VerdictOf(x) = "none" THEN red.kind ELSE VerdictOf(x)
    BY <1>5, KindReduced
  <2>2. red.kind = VerdictOf(LastIn(lines, Said))
    BY <1>5 DEF Reduced, Kinds
  <2>3. x \in Said <=> VerdictOf(x) # "none"
    BY <1>1, <1>5, VerdictsSpeak DEF Alphabet
  <2>4. LastIn(l, Said) = IF x \in Said THEN x ELSE LastIn(lines, Said)
    BY <1>3, <1>4
  <2>5. r.kind = VerdictOf(LastIn(l, Said))
    BY <2>1, <2>2, <2>3, <2>4
  <2> QED
    BY <1>2, <1>3, <1>5, <2>1, <2>5 DEF Reduced, Kinds, l
<1>6. CASE adapter.name = "codex"
  <2>1. r = codexLine(red, x) /\ x \in codexStream
    BY <1>6 DEF Reduce, Alphabet
  <2>2. TurnRead(lines, red)
    BY <1>6 DEF Reduced
  <2>3. r \in Reductions
    <3>1. CASE x \in {"text", "prose", "blank"}
      BY <1>1, <2>1, <3>1 DEF codexLine, Reductions
    <3>2. CASE x \in {"done", "mute"}
      BY <1>1, <2>1, <3>2 DEF codexLine, Reductions
    <3>3. CASE x \in {"fail", "bad400", "notice", "notice400"}
      BY <1>1, <2>1, <3>3 DEF codexLine, Reductions
    <3> QED
      BY <2>1, <3>1, <3>2, <3>3 DEF codexStream, Unparsed
  <2>4. /\ r.text = IF x \in Messages THEN x ELSE red.text
        /\ r.done = (red.done \/ x \in Ends)
        /\ r.notice = IF x \in Notices THEN x ELSE red.notice
        /\ r.failed = IF x \in Failures THEN x ELSE IF x = "mute" /\ red.failed = "none" THEN "mute" ELSE red.failed
    BY <1>1, <2>1 DEF codexLine, Reductions, codexStream, Messages, Ends, Notices, Failures
  <2>5. /\ LastIn(l, Messages) = IF x \in Messages THEN x ELSE LastIn(lines, Messages)
        /\ LastIn(l, Ends) = IF x \in Ends THEN x ELSE LastIn(lines, Ends)
        /\ LastIn(l, Notices) = IF x \in Notices THEN x ELSE LastIn(lines, Notices)
        /\ LastIn(l, Failures) = IF x \in Failures THEN x ELSE LastIn(lines, Failures)
    BY <1>3, <1>4
  <2>6. x # "none"
    BY <2>1 DEF codexStream
  <2>7. TurnRead(l, r)
    BY <2>2, <2>4, <2>5, <2>6 DEF TurnRead
  <2> QED
    BY <1>2, <1>3, <1>6, <2>3, <2>7 DEF Reduced, l
<1>7. CASE adapter.name = "goose"
  <2>1. r = gooseLine(red, x) /\ x \in gooseStream
    BY <1>7 DEF Reduce, Alphabet
  <2>2. AnswerRead(lines, red, FALSE)
    BY <1>7 DEF Reduced
  <2>3. x \notin Unparsed
    OBVIOUS
  <2>4. /\ r.text = IF x \in Answers THEN assistantText(red.text, x) ELSE red.text
        /\ r.done = (red.done \/ x \in Ends)
        /\ r.failed = IF x = "fail" THEN "fail" ELSE IF x = "mute" THEN "none" ELSE red.failed
    BY <1>1, <2>1 DEF gooseLine, Reductions, gooseStream, Answers, Ends
  <2>5. r \in Reductions
    <3>1. assistantText(red.text, x) \in {"none", "text", "prose", "blank"} \/ x \notin {"text", "prose"}
      BY <1>1 DEF assistantText, Reductions
    <3>2. CASE x \in {"text", "prose"}
      BY <1>1, <2>1, <3>1, <3>2 DEF gooseLine, Reductions
    <3>3. CASE x \in {"done", "fail", "mute"}
      BY <1>1, <2>1, <3>3 DEF gooseLine, Reductions
    <3>4. CASE x \in {"config", "junk"}
      BY <1>1, <2>1, <3>4 DEF gooseLine, Reductions
    <3>5. CASE x \notin {"text", "prose", "done", "fail", "mute", "config", "junk"}
      BY <1>1, <2>1, <3>5 DEF gooseLine
    <3> QED
      BY <3>2, <3>3, <3>4, <3>5
  <2>6. /\ LastIn(l, Answers) = IF x \in Answers THEN x ELSE LastIn(lines, Answers)
        /\ LastIn(l, Ends) = IF x \in Ends THEN x ELSE LastIn(lines, Ends)
        /\ LastIn(l, Recoveries) = IF x \in Recoveries THEN x ELSE LastIn(lines, Recoveries)
    BY <1>3, <1>4
  <2>7. x # "none"
    BY <2>1 DEF gooseStream
  <2>8. AnswerRead(l, r, FALSE)
    BY <2>2, <2>4, <2>6, <2>7 DEF AnswerRead, assistantText, Recoveries
  <2> QED
    BY <1>2, <1>3, <1>7, <2>5, <2>8 DEF Reduced, l
<1> QED
  BY <1>1, <1>5, <1>6, <1>7

\* A line that is not parsed only changes the diagnosis.
LEMMA Skipped ==
  ASSUME AdapterTyped, NEW x \in Alphabet(adapter.name), x \in {"junk", "config"}, Reduced(lines, red, FALSE)
  PROVE  Reduce(red, x) \in Reductions /\ Reduced(lines, Reduce(red, x), FALSE)
<1> DEFINE r == Reduce(red, x)
<1>1. red \in Reductions /\ x \in Stream /\ adapter.name \in {"claude", "session", "codex", "droid", "goose"}
  BY AdapterFacts DEF AdapterTyped
<1>2. CASE adapter.name \in {"claude", "session", "droid"}
  <2>1. r \in Reductions /\ r.kind = IF VerdictOf(x) = "none" THEN red.kind ELSE VerdictOf(x)
    BY <1>2, KindReduced
  <2>2. VerdictOf(x) = "none"
    BY <1>1, <1>2, VerdictsSpeak DEF Said, Alphabet
  <2> QED
    BY <1>2, <2>1, <2>2 DEF Reduced, Kinds
<1>3. CASE adapter.name = "codex"
  <2>1. r = codexLine(red, x) /\ x \in codexStream
    BY <1>3 DEF Reduce, Alphabet
  <2>2. r \in Reductions /\ r.text = red.text /\ r.done = red.done /\ r.notice = red.notice /\ r.failed = red.failed
    BY <1>1, <2>1 DEF codexLine, Reductions, codexStream
  <2> QED
    BY <1>3, <2>2 DEF Reduced, TurnRead
<1>4. CASE adapter.name = "goose"
  <2>1. r = gooseLine(red, x)
    BY <1>4 DEF Reduce
  <2>2. r \in Reductions /\ r.text = red.text /\ r.done = red.done /\ r.failed = red.failed
    BY <1>1, <2>1 DEF gooseLine, Reductions
  <2> QED
    BY <1>4, <2>2 DEF Reduced, AnswerRead
<1> QED
  BY <1>1, <1>2, <1>3, <1>4

\* The scanner stops at a line that is too long.
LEMMA Cut ==
  ASSUME AdapterTyped, Reduced(lines, red, FALSE), HasLast(lines, Said),
         \A i \in DOMAIN lines : lines[i] \in Alphabet(adapter.name)
  PROVE  ScanError(red) \in Reductions /\ Reduced(lines, ScanError(red), TRUE)
<1> DEFINE r == ScanError(red)
<1>1. red \in Reductions /\ adapter.name \in {"claude", "session", "codex", "droid", "goose"}
  BY AdapterFacts DEF AdapterTyped
<1>2. CASE adapter.name \in {"claude", "session", "droid"}
  <2>1. r \in Reductions /\ r.kind = IF red.kind = "none" THEN "fatal" ELSE red.kind
    BY <1>1, <1>2 DEF ScanError, Reductions
  <2>2. red.kind = VerdictOf(LastIn(lines, Said))
    BY <1>2 DEF Reduced, Kinds
  <2>3. ASSUME red.kind = "none" PROVE LastIn(lines, Said) = "none"
    <3>1. SUFFICES ASSUME LastIn(lines, Said) # "none" PROVE FALSE
      OBVIOUS
    <3>2. LastIn(lines, Said) \in Said /\ LastIn(lines, Said) \in Alphabet(adapter.name)
      BY <3>1, LastWithin
    <3>3. LastIn(lines, Said) \in Stream /\ (adapter.name = "droid" => LastIn(lines, Said) \in droidStream)
      BY <3>2, AdapterFacts DEF Alphabet
    <3> QED
      BY <1>2, <2>2, <2>3, <3>2, <3>3, VerdictsSpeak
  <2> QED
    BY <1>2, <2>1, <2>2, <2>3 DEF Reduced, Kinds
<1>3. CASE adapter.name = "codex"
  <2>1. r = [red EXCEPT !.diag = "junk"]
    BY <1>3 DEF ScanError
  <2>2. r \in Reductions /\ r.text = red.text /\ r.done = red.done /\ r.notice = red.notice /\ r.failed = red.failed
    BY <1>1, <2>1 DEF Reductions
  <2> QED
    BY <1>3, <2>2 DEF Reduced, TurnRead
<1>4. CASE adapter.name = "goose"
  <2>1. r = [red EXCEPT !.failed = IF red.failed = "none" THEN "fail" ELSE red.failed]
    BY <1>1, <1>4 DEF ScanError, Reductions
  <2>2. r \in Reductions /\ r.text = red.text /\ r.done = red.done /\ r.failed # "none"
    BY <1>1, <2>1 DEF Reductions
  <2> QED
    BY <1>4, <2>2 DEF Reduced, AnswerRead
<1> QED
  BY <1>1, <1>2, <1>3, <1>4

\* A success was earned.
LEMMA EarnedOk ==
  ASSUME AdapterTyped, \A S \in KindSets : HasLast(lines, S), NEW short \in BOOLEAN, Reduced(lines, red, short),
         NEW res \in Results, Outcome(red, res) = "ok"
  PROVE  /\ ~res.err
         /\ LastIn(lines, Verdicts(adapter.name))
              \in {"done"} \cup (IF adapter.name = "droid" /\ ~adapter.schema THEN {"garbled"} ELSE {})
         /\ adapter.name = "codex" => LastIn(lines, {"text", "prose", "blank"})
                                        \in (IF adapter.schema THEN {"text"} ELSE {"text", "prose"})
         /\ adapter.name = "goose" => LastIn(lines, {"text", "prose"}) # "none" /\ LastIn(lines, {"fail", "mute"}) # "fail"
<1>1. ~res.err /\ red \in Reductions /\ adapter.schema \in BOOLEAN
      /\ adapter.name \in {"claude", "session", "codex", "droid", "goose"}
  BY AdapterFacts DEF Outcome, AdapterTyped
<1>2. CASE adapter.name \in {"claude", "session", "droid"}
  <2>2. claudeOutcome(red) = "ok"
    <3>1. CASE adapter.name = "droid"
      BY <1>1, <3>1 DEF Outcome, droidOutcome
    <3>2. CASE adapter.name # "droid"
      BY <1>1, <1>2, <3>2 DEF Outcome
    <3> QED
      BY <3>1, <3>2
  <2>3. red.kind = "ok"
    BY <1>1, <2>2 DEF claudeOutcome, Reductions
  <2>4. VerdictOf(LastIn(lines, Said)) = "ok"
    BY <1>2, <2>3 DEF Reduced, Kinds
  <2>5. LastIn(lines, Said) \in {"done"} \cup (IF adapter.name = "droid" /\ ~adapter.schema THEN {"garbled"} ELSE {})
    BY <1>1, <2>4 DEF VerdictOf, ExtractResult, resultFromCompletion, errorFromEvent
  <2>6. Verdicts(adapter.name) = Said
    BY <1>2 DEF Verdicts, Said
  <2> QED
    BY <1>1, <1>2, <2>5, <2>6
<1>3. CASE adapter.name = "codex"
  <2>1. codexOutcome(red, adapter.schema) = "ok" /\ TurnRead(lines, red)
    BY <1>1, <1>3 DEF Outcome, Reduced
  <2>2. red.done /\ red.text \in {"text", "prose"} /\ buildResult(red, adapter.schema) = "ok"
    BY <1>1, <2>1 DEF codexOutcome, isPermanentCodexError, Reductions
  <2>3. LastIn(lines, Ends) \in Ends
    BY <2>1, <2>2, LastWithin DEF TurnRead, KindSets
  <2>4. adapter.schema => red.text = "text"
    BY <2>2 DEF buildResult
  <2>5. LastIn(lines, Messages) = red.text
    BY <2>1 DEF TurnRead
  <2>6. Verdicts(adapter.name) = Ends
    BY <1>3 DEF Verdicts, Ends
  <2> QED
    BY <1>1, <1>3, <2>2, <2>3, <2>4, <2>5, <2>6 DEF Ends, Messages
<1>4. CASE adapter.name = "goose"
  <2>1. gooseOutcome(red, res.code, cli.result.stderr, adapter.schema) = "ok" /\ AnswerRead(lines, red, short)
    BY <1>1, <1>4 DEF Outcome, Reduced
  <2>2. red.done /\ red.text # "none" /\ red.failed = "none"
    BY <2>1 DEF gooseOutcome
  <2>3. LastIn(lines, Ends) \in Ends
    BY <2>1, <2>2, LastWithin DEF AnswerRead, KindSets
  <2>4. LastIn(lines, Answers) # "none" /\ LastIn(lines, Recoveries) # "fail"
    BY <2>1, <2>2 DEF AnswerRead
  <2>5. Verdicts(adapter.name) = Ends
    BY <1>4 DEF Verdicts, Ends
  <2> QED
    BY <1>1, <1>4, <2>3, <2>4, <2>5 DEF Ends, Answers, Recoveries
<1> QED
  BY <1>1, <1>2, <1>3, <1>4

\* A permanent failure was stated.
LEMMA StatedPermanent ==
  ASSUME AdapterTyped, \A S \in KindSets : HasLast(lines, S), NEW short \in BOOLEAN, Reduced(lines, red, short),
         Outcome(red, cli.result) \in {"permission", "invalid"}, \A i \in DOMAIN lines : lines[i] \in Alphabet(adapter.name)
  PROVE  /\ ~cli.result.err
         /\ CASE adapter.name \in {"claude", "session", "droid"} ->
                   \/ LastIn(lines, Verdicts(adapter.name)) = "denied"
                   \/ adapter.name = "droid" /\ cli.result.stderr = "config" /\ LastIn(lines, Verdicts("droid")) = "none"
              [] adapter.name = "codex" ->
                   /\ LastIn(lines, {"done"}) = "none" \/ LastIn(lines, {"text", "prose", "blank"}) \notin {"text", "prose"}
                   /\ IF LastIn(lines, {"bad400", "fail"}) # "none" THEN LastIn(lines, {"bad400", "fail"}) = "bad400"
                      ELSE LastIn(lines, {"notice", "notice400"}) = "notice400"
              [] adapter.name = "goose" -> cli.result.code # 0
<1>1. ~cli.result.err /\ red \in Reductions /\ adapter.schema \in BOOLEAN
      /\ adapter.name \in {"claude", "session", "codex", "droid", "goose"}
  BY AdapterFacts DEF Outcome, AdapterTyped
<1>2. CASE adapter.name \in {"claude", "session", "droid"}
  <2>1. Verdicts(adapter.name) = Said /\ Verdicts("droid") = Said
    BY <1>2 DEF Verdicts, Said
  <2>2. CASE claudeOutcome(red) \in {"permission", "invalid"}
    <3>1. red.kind = "auth"
      BY <1>1, <2>2 DEF claudeOutcome, Reductions
    <3>2. VerdictOf(LastIn(lines, Said)) = "auth"
      BY <1>2, <3>1 DEF Reduced, Kinds
    <3>3. LastIn(lines, Said) = "denied"
      BY <1>1, <3>2 DEF VerdictOf, ExtractResult, resultFromCompletion, errorFromEvent
    <3> QED
      BY <1>1, <1>2, <2>1, <3>3
  <2>3. CASE claudeOutcome(red) \notin {"permission", "invalid"}
    <3>1. adapter.name = "droid" /\ droidOutcome(red, cli.result.stderr) \in {"permission", "invalid"}
      BY <1>1, <1>2, <2>3 DEF Outcome
    <3>2. red.kind = "none" /\ cli.result.stderr = "config"
      BY <2>3, <3>1 DEF droidOutcome, configErrorFromStderr
    <3>3. VerdictOf(LastIn(lines, Said)) = "none" /\ HasLast(lines, Said)
      BY <1>2, <3>2 DEF Reduced, Kinds, KindSets
    <3>4. ASSUME LastIn(lines, Said) # "none" PROVE FALSE
      <4>1. LastIn(lines, Said) \in Said /\ LastIn(lines, Said) \in Alphabet(adapter.name)
        BY <3>3, <3>4, LastWithin
      <4>2. LastIn(lines, Said) \in droidStream /\ LastIn(lines, Said) \in Stream
        BY <3>1, <4>1, AdapterFacts DEF Alphabet
      <4> QED
        BY <3>1, <3>3, <4>1, <4>2, VerdictsSpeak
    <3>5. LastIn(lines, Said) = "none"
      BY <3>4
    <3> QED
      BY <1>1, <2>1, <3>1, <3>2, <3>5
  <2> QED
    BY <2>2, <2>3
<1>3. CASE adapter.name = "codex"
  <2>1. codexOutcome(red, adapter.schema) \in {"permission", "invalid"} /\ TurnRead(lines, red)
    BY <1>1, <1>3 DEF Outcome, Reduced
  <2>2. ~(red.done /\ red.text \in {"text", "prose"})
    BY <2>1 DEF codexOutcome, buildResult
  <2> DEFINE message == IF red.failed \in {"none", "mute"} THEN red.notice ELSE red.failed
  <2>3. message \in {"bad400", "notice400"}
    BY <1>1, <2>1, <2>2 DEF codexOutcome, isPermanentCodexError, Reductions
  <2>4. IF LastIn(lines, Failures) # "none" THEN LastIn(lines, Failures) = "bad400"
        ELSE LastIn(lines, Notices) = "notice400"
    <3>1. CASE LastIn(lines, Failures) # "none"
      <4>1. LastIn(lines, Failures) \in Failures /\ red.failed = LastIn(lines, Failures)
        BY <2>1, <3>1, LastWithin DEF TurnRead, KindSets
      <4> QED
        BY <2>3, <3>1, <4>1 DEF Failures
    <3>2. CASE LastIn(lines, Failures) = "none"
      <4>1. red.failed \in {"none", "mute"} /\ red.notice = LastIn(lines, Notices)
        BY <2>1, <3>2 DEF TurnRead
      <4> QED
        BY <1>1, <2>3, <3>2, <4>1 DEF Reductions
    <3> QED
      BY <3>1, <3>2
  <2>5. LastIn(lines, Ends) = "none" \/ LastIn(lines, Messages) \notin {"text", "prose"}
    BY <2>1, <2>2 DEF TurnRead
  <2> QED
    BY <1>1, <1>3, <2>4, <2>5 DEF Ends, Messages, Failures, Notices
<1>4. CASE adapter.name = "goose"
  <2>1. gooseOutcome(red, cli.result.code, cli.result.stderr, adapter.schema) \in {"permission", "invalid"}
    BY <1>1, <1>4 DEF Outcome
  <2>2. cli.result.code # 0
    BY <2>1 DEF gooseOutcome, buildResult
  <2> QED
    BY <1>1, <1>4, <2>2
<1> QED
  BY <1>1, <1>2, <1>3, <1>4

\* There is always an outcome.
LEMMA OutcomeTyped ==
  ASSUME AdapterTyped
  PROVE  Outcome(red, cli.result) \in {"ok", "unparseable", "permission", "invalid", "launch", "exit"}
<1>1. red \in Reductions /\ cli.result \in Results /\ adapter.schema \in BOOLEAN
      /\ adapter.name \in {"claude", "session", "codex", "droid", "goose"}
  BY AdapterFacts DEF AdapterTyped
<1>2. claudeOutcome(red) \in {"ok", "unparseable", "permission", "launch", "exit"}
  BY <1>1 DEF claudeOutcome, Reductions
<1>3. buildResult(red, adapter.schema) \in {"ok", "unparseable"}
  BY DEF buildResult
<1>4. droidOutcome(red, cli.result.stderr) \in {"ok", "unparseable", "permission", "invalid", "launch", "exit"}
  BY <1>2 DEF droidOutcome
<1>5. codexOutcome(red, adapter.schema) \in {"ok", "unparseable", "invalid", "launch", "exit"}
  BY <1>1, <1>3 DEF codexOutcome, isPermanentCodexError, Reductions
<1>6. gooseOutcome(red, cli.result.code, cli.result.stderr, adapter.schema) \in {"ok", "unparseable", "invalid", "launch", "exit"}
  BY <1>3 DEF gooseOutcome
<1> QED
  BY <1>1, <1>2, <1>4, <1>5, <1>6 DEF Outcome

-----------------------------------------------------------------------------
(* The steps of a launch.                                                  *)

AdapterSpec == AdapterInit /\ [][AdapterNext]_adapterVars

\* A step that neither reads a line nor decides.
LEMMA NothingSaid ==
  ASSUME AdapterInv, UNCHANGED <<adapter, red, outcome, lines>>, scan'.line = "long" <=> scan.line = "long",
         cli'.result = cli.result \/ outcome \in {"none", "launch"}, AdapterTyped', Positions', WholeOutput'
  PROVE  AdapterInv'
<1>1. \A S \in KindSets : HasLast(lines', S)
  BY DEF AdapterInv
<1>2. \A S : LastOf(S)' = LastOf(S)
  BY DEF LastOf
<1>3. OkIsEarned'
  BY <1>2 DEF AdapterInv, OkIsEarned
<1>4. PermanentIsStated'
  BY <1>2 DEF AdapterInv, PermanentIsStated
<1>5. Reduced(lines, red, scan.line = "long")'
  BY DEF AdapterInv, Reduced, Kinds, VerdictOf, TurnRead, AnswerRead
<1> QED
  BY <1>1, <1>3, <1>4, <1>5 DEF AdapterInv

LEMMA AdapterBegins == AdapterInit => AdapterInv
<1> SUFFICES ASSUME AdapterInit PROVE AdapterInv
  OBVIOUS
<1>1. adapter.name \in AdapterNames /\ MaxLines[adapter.name] \in Nat
  BY AdapterConstants DEF AdapterInit
<1>2. red \in Reductions
  BY DEF AdapterInit, NothingYet, Reductions
<1>3. cli \in [left : 0 .. MaxLines[adapter.name], result : Results]
  BY <1>1 DEF AdapterInit, NoResult, Results
<1>4. AdapterTyped
  BY <1>1, <1>2, <1>3, AdapterConstants DEF AdapterInit, AdapterTyped
<1>5. Positions
  BY DEF AdapterInit, Positions, Running
<1>6. \A S : HasLast(lines, S) /\ LastIn(lines, S) = "none"
  BY NoLast DEF AdapterInit
<1>7. VerdictOf("none") = "none"
  BY DEF VerdictOf, ExtractResult
<1>8. Reduced(lines, red, scan.line = "long")
  BY <1>6, <1>7 DEF AdapterInit, NothingYet, Reduced, Kinds, TurnRead, AnswerRead
<1> QED
  BY <1>4, <1>5, <1>6, <1>8 DEF AdapterInit, AdapterInv, OkIsEarned, PermanentIsStated, WholeOutput

\* The process writes a line, ends, or the context is cancelled.
LEMMA ProcessSteps ==
  ASSUME AdapterInv,
         (\E line \in Alphabet(adapter.name) : WriteLine(line)) \/ (\E ending \in Endings(adapter.name) : Exit(ending))
         \/ Cancel \/ TakeEvent
  PROVE  AdapterInv'
<1>1. AdapterTyped /\ Positions /\ WholeOutput /\ ChunkCap \in Nat /\ EventCap \in Nat /\ MaxLines[adapter.name] \in Nat
      /\ adapter.name \in {"claude", "session", "codex", "droid", "goose"}
  BY AdapterFacts DEF AdapterInv
<1>2. ASSUME NEW line \in Alphabet(adapter.name), WriteLine(line) PROVE AdapterInv'
  <2>1. chunks' \in Seq(Alphabet(adapter.name)) /\ Len(chunks') <= ChunkCap
    BY <1>1, <1>2 DEF WriteLine, AdapterTyped
  <2>2. cli' \in [left : 0 .. MaxLines[adapter.name], result : Results] /\ cli'.result = cli.result
    <3>1. cli \in [left : 0 .. MaxLines[adapter.name], result : Results] /\ cli.left > 0 /\ cli' = [cli EXCEPT !.left = @ - 1]
      BY <1>1, <1>2 DEF WriteLine, AdapterTyped
    <3>2. cli.left - 1 \in 0 .. MaxLines[adapter.name]
      BY <1>1, <3>1
    <3> QED
      BY <3>1, <3>2
  <2>3. AdapterTyped'
    BY <1>1, <1>2, <2>1, <2>2 DEF WriteLine, AdapterTyped
  <2>4. Positions' /\ WholeOutput'
    BY <1>1, <1>2, <2>2 DEF WriteLine, Positions, WholeOutput, Running
  <2> QED
    BY <1>2, <2>2, <2>3, <2>4, NothingSaid DEF WriteLine
<1>3. ASSUME NEW ending \in Endings(adapter.name), Exit(ending) PROVE AdapterInv'
  <2>1. ending \in Results /\ ending.code # 99
    <3>1. CASE ending = [err |-> TRUE, code |-> 0, stderr |-> "none"]
      BY <3>1 DEF Results
    <3>2. CASE ending # [err |-> TRUE, code |-> 0, stderr |-> "none"]
      <4>1. ending \in [err : {FALSE}, code : {0, 1}, stderr : {"none", "text", "config"}]
        BY <3>2 DEF Endings
      <4>2. {FALSE} \subseteq BOOLEAN /\ {0, 1} \subseteq {0, 1, 99} /\ 0 # 99 /\ 1 # 99
        OBVIOUS
      <4>3. ending.code \in {0, 1}
        BY <4>1
      <4>4. ending \in Results
        BY <4>1, <4>2, Zenon DEF Results
      <4> QED
        BY <4>2, <4>3, <4>4
    <3> QED
      BY <3>1, <3>2
  <2>2. cli' \in [left : 0 .. MaxLines[adapter.name], result : Results] /\ cli'.result # NoResult
    <3>1. 0 \in 0 .. MaxLines[adapter.name]
      BY <1>1
    <3> DEFINE end == [ending EXCEPT !.err = ending.err \/ ctx = "done"]
    <3>2. end \in Results /\ end.code # 99
      BY <2>1 DEF Results
    <3>3. end # NoResult
      BY <3>2 DEF NoResult
    <3>4. cli' = [cli EXCEPT !.left = 0, !.result = end]
      BY <1>3, <2>1 DEF Exit, Results
    <3> HIDE DEF end
    <3> QED
      BY <1>1, <3>1, <3>2, <3>3, <3>4 DEF AdapterTyped
  <2>3. AdapterTyped'
    BY <1>1, <1>3, <2>2 DEF Exit, AdapterTyped
  <2>4. Positions' /\ WholeOutput' /\ outcome \in {"none", "launch"}
    BY <1>1, <1>3, <2>2 DEF Exit, Positions, WholeOutput, Running
  <2> QED
    BY <1>3, <2>3, <2>4, NothingSaid DEF Exit
<1>4. CASE Cancel
  <2>1. AdapterTyped' /\ Positions' /\ WholeOutput'
    BY <1>1, <1>4 DEF Cancel, AdapterTyped, Positions, WholeOutput, Running
  <2> QED
    BY <1>4, <2>1, NothingSaid DEF Cancel
<1>5. CASE TakeEvent
  <2>1. AdapterTyped' /\ Positions' /\ WholeOutput'
    BY <1>1, <1>5 DEF TakeEvent, AdapterTyped, Positions, WholeOutput, Running
  <2> QED
    BY <1>5, <2>1, NothingSaid DEF TakeEvent
<1> QED
  BY <1>2, <1>3, <1>4, <1>5

\* Goroutine A.
LEMMA ForwardSteps ==
  ASSUME AdapterInv, TakeChunk \/ WriteFails \/ ForwardEnds
  PROVE  AdapterInv'
<1>1. AdapterTyped /\ Positions /\ WholeOutput /\ Alphabet(adapter.name) \subseteq Stream /\ ChunkCap \in Nat
  BY AdapterFacts DEF AdapterInv
<1>2. CASE TakeChunk
  <2>1. Head(chunks) \in Alphabet(adapter.name) /\ Tail(chunks) \in Seq(Alphabet(adapter.name))
        /\ Len(Tail(chunks)) <= ChunkCap
    BY <1>1, <1>2 DEF TakeChunk, AdapterTyped
  <2>2. AdapterTyped'
    BY <1>1, <1>2, <2>1 DEF TakeChunk, AdapterTyped
  <2>3. Positions' /\ WholeOutput'
    BY <1>1, <1>2, <2>1 DEF TakeChunk, Positions, WholeOutput, Running, AdapterTyped
  <2> QED
    BY <1>2, <2>2, <2>3, NothingSaid DEF TakeChunk
<1>3. CASE WriteFails
  <2>1. AdapterTyped'
    BY <1>1, <1>3 DEF WriteFails, AdapterTyped
  <2>2. Positions' /\ WholeOutput'
    BY <1>1, <1>3 DEF WriteFails, Positions, WholeOutput, Running, AdapterTyped
  <2> QED
    BY <1>3, <2>1, <2>2, NothingSaid DEF WriteFails
<1>4. CASE ForwardEnds
  <2>1. AdapterTyped'
    BY <1>1, <1>4 DEF ForwardEnds, AdapterTyped
  <2>2. Positions' /\ WholeOutput'
    BY <1>1, <1>4 DEF ForwardEnds, Positions, WholeOutput, Running, AdapterTyped
  <2> QED
    BY <1>4, <2>1, <2>2, NothingSaid DEF ForwardEnds
<1> QED
  BY <1>2, <1>3, <1>4

\* Goroutine B reads a line: it ends the scan, changes the diagnosis, or is to be emitted.
LEMMA ScanSteps ==
  ASSUME AdapterInv, ScanLine
  PROVE  AdapterInv'
<1>1. AdapterTyped /\ Positions /\ WholeOutput /\ Alphabet(adapter.name) \subseteq Stream
  BY AdapterFacts DEF AdapterInv
<1>2. /\ scan.pc = "scan" /\ fwd.pc = "write" /\ scan.line # "long" /\ outcome = "none"
      /\ fwd.line \in Alphabet(adapter.name)
      /\ fwd' = [fwd EXCEPT !.pc = "take"] \/ fwd' = fwd
      /\ UNCHANGED <<adapter, cli, ctx, chunks, events, outcome, lines>>
  BY <1>1 DEF ScanLine, Positions
<1>3. fwd' \in [pc : {"take", "write", "drain", "done"}, line : Stream \cup {"none"}] /\ fwd'.line = fwd.line
      /\ fwd'.pc \in {"take", "write"}
  BY <1>1, <1>2 DEF AdapterTyped
<1>4. Reduced(lines, red, FALSE)
  BY <1>2 DEF AdapterInv, Reduced, Kinds, AnswerRead
<1>5. OkIsEarned' /\ PermanentIsStated' /\ WholeOutput'
  BY <1>2 DEF OkIsEarned, PermanentIsStated, WholeOutput
<1>6. \A S \in KindSets : HasLast(lines', S)
  BY <1>2 DEF AdapterInv
<1>7. CASE fwd.line = "long"
  <2>1. scan' = [scan EXCEPT !.pc = "result", !.line = "long"] /\ red' = ScanError(red)
    BY <1>7 DEF ScanLine
  <2>2. red' \in Reductions /\ Reduced(lines, red', TRUE)
    BY <1>1, <1>4, <2>1, Cut DEF AdapterInv, KindSets, Positions
  <2>3. scan'.line = "long" /\ scan'.pc = "result"
        /\ scan' \in [pc : {"scan", "emit", "result", "returned"}, line : Stream \cup {"none"}, pend : 0 .. 2]
    BY <1>1, <1>2, <1>7, <2>1 DEF AdapterTyped
  <2>4. AdapterTyped'
    BY <1>1, <1>2, <1>3, <2>2, <2>3 DEF AdapterTyped
  <2>5. Positions'
    BY <1>1, <1>2, <1>3, <2>3 DEF Positions, Running
  <2>6. Reduced(lines, red, scan.line = "long")'
    BY <1>2, <2>2, <2>3 DEF Reduced, Kinds, VerdictOf, TurnRead, AnswerRead
  <2> QED
    BY <1>5, <1>6, <2>4, <2>5, <2>6 DEF AdapterInv
<1>8. CASE fwd.line \in {"junk", "config"}
  <2>1. scan' = scan /\ red' = Reduce(red, fwd.line)
    BY <1>8 DEF ScanLine, Unparsed
  <2>2. red' \in Reductions /\ Reduced(lines, red', FALSE)
    BY <1>1, <1>2, <1>4, <1>8, <2>1, Skipped
  <2>3. AdapterTyped'
    BY <1>1, <1>2, <1>3, <2>1, <2>2 DEF AdapterTyped
  <2>4. Positions'
    BY <1>1, <1>2, <1>3, <2>1 DEF Positions, Running
  <2>5. Reduced(lines, red, scan.line = "long")'
    BY <1>2, <2>1, <2>2 DEF Reduced, Kinds, VerdictOf, TurnRead, AnswerRead
  <2> QED
    BY <1>5, <1>6, <2>3, <2>4, <2>5 DEF AdapterInv
<1>9. CASE fwd.line \notin Unparsed
  <2>1. scan' = [pc |-> "emit", line |-> fwd.line, pend |-> MessageToEvents(adapter.name, fwd.line)] /\ red' = red
    BY <1>9 DEF ScanLine, Unparsed
  <2>2. scan' \in [pc : {"scan", "emit", "result", "returned"}, line : Stream \cup {"none"}, pend : 0 .. 2]
        /\ scan'.pc = "emit" /\ scan'.line = fwd.line /\ fwd.line # "long"
    BY <1>1, <1>2, <1>9, <2>1 DEF MessageToEvents, Unparsed
  <2>3. AdapterTyped'
    BY <1>1, <1>2, <1>3, <2>1, <2>2 DEF AdapterTyped
  <2>4. Positions'
    BY <1>1, <1>2, <1>3, <1>9, <2>2 DEF Positions, Running
  <2>5. Reduced(lines, red, scan.line = "long")'
    BY <1>2, <1>4, <2>1, <2>2 DEF Reduced, Kinds, VerdictOf, TurnRead, AnswerRead
  <2> QED
    BY <1>5, <1>6, <2>3, <2>4, <2>5 DEF AdapterInv
<1> QED
  BY <1>7, <1>8, <1>9 DEF Unparsed

\* Goroutine B emits the events of a line, and reduces it behind the last one.
LEMMA EmitSteps ==
  ASSUME AdapterInv, EmitEvent \/ EmitStopped
  PROVE  AdapterInv'
<1>1. AdapterTyped /\ Positions /\ WholeOutput /\ EventCap \in Nat /\ outcome = "none" /\ scan.pc = "emit"
      /\ scan.line \in Alphabet(adapter.name) \ Unparsed /\ scan.line # "long"
  BY AdapterFacts DEF AdapterInv, EmitEvent, EmitStopped, Positions
<1>2. CASE EmitStopped
  <2>1. AdapterTyped' /\ scan'.pc = "returned" /\ scan'.line = scan.line
    BY <1>1, <1>2 DEF EmitStopped, AdapterTyped
  <2>2. Positions' /\ WholeOutput' /\ OkIsEarned' /\ PermanentIsStated'
    BY <1>1, <1>2, <2>1 DEF EmitStopped, Positions, WholeOutput, Running, OkIsEarned, PermanentIsStated
  <2>3. Reduced(lines, red, scan.line = "long")'
    BY <1>1, <1>2, <2>1 DEF AdapterInv, EmitStopped, Reduced, Kinds, VerdictOf, TurnRead, AnswerRead
  <2>4. \A S \in KindSets : HasLast(lines', S)
    BY <1>2 DEF AdapterInv, EmitStopped
  <2> QED
    BY <2>1, <2>2, <2>3, <2>4 DEF AdapterInv
<1>3. CASE EmitEvent /\ scan.pend > 1
  <2>1. scan' = [scan EXCEPT !.pend = scan.pend - 1] /\ events' = events + 1 /\ events < EventCap
        /\ UNCHANGED <<adapter, cli, ctx, chunks, fwd, outcome, red, lines>>
    BY <1>1, <1>3 DEF EmitEvent, AdapterTyped
  <2>2. scan' \in [pc : {"scan", "emit", "result", "returned"}, line : Stream \cup {"none"}, pend : 0 .. 2]
        /\ scan'.pc = scan.pc /\ scan'.line = scan.line
    BY <1>1, <1>3, <2>1 DEF AdapterTyped
  <2>3. AdapterTyped'
    BY <1>1, <2>1, <2>2 DEF AdapterTyped
  <2>4. Positions' /\ WholeOutput'
    BY <1>1, <2>1, <2>2 DEF Positions, WholeOutput, Running
  <2> QED
    BY <2>1, <2>2, <2>3, <2>4, NothingSaid
<1>4. CASE EmitEvent /\ ~(scan.pend > 1)
  <2>1. /\ scan' = [scan EXCEPT !.pc = "scan", !.pend = 0] /\ events' = events + 1 /\ events < EventCap
        /\ red' = Reduce(red, scan.line) /\ lines' = Append(lines, scan.line)
        /\ UNCHANGED <<adapter, cli, ctx, chunks, fwd, outcome>>
    BY <1>4 DEF EmitEvent
  <2>2. Reduced(lines, red, FALSE) /\ \A S \in KindSets : HasLast(lines, S)
    BY <1>1 DEF AdapterInv, Reduced, Kinds, AnswerRead
  <2>3. lines' \in Seq(Parsed) /\ red' \in Reductions /\ (\A S \in KindSets : HasLast(lines', S))
        /\ Reduced(lines', red', FALSE)
    BY <1>1, <2>1, <2>2, Emitted
  <2>4. scan' \in [pc : {"scan", "emit", "result", "returned"}, line : Stream \cup {"none"}, pend : 0 .. 2]
        /\ scan'.pc = "scan" /\ scan'.line = scan.line
    <3>1. 0 \in 0 .. 2
      OBVIOUS
    <3> QED
      BY <1>1, <2>1, <3>1 DEF AdapterTyped
  <2>5. AdapterTyped'
    BY <1>1, <2>1, <2>3, <2>4 DEF AdapterTyped
  <2>6. \A i \in DOMAIN lines' : lines'[i] \in Alphabet(adapter.name)
    <3>1. lines \in Seq(Parsed)
      BY <1>1 DEF AdapterTyped
    <3>2. \A i \in DOMAIN lines' : (i \in DOMAIN lines /\ lines'[i] = lines[i]) \/ lines'[i] = scan.line
      BY <2>1, <3>1
    <3> QED
      BY <1>1, <3>2 DEF Positions
  <2>7. Positions' /\ WholeOutput' /\ OkIsEarned' /\ PermanentIsStated'
    BY <1>1, <2>1, <2>4, <2>6 DEF Positions, WholeOutput, Running, OkIsEarned, PermanentIsStated
  <2>8. Reduced(lines, red, scan.line = "long")'
    BY <1>1, <2>1, <2>3, <2>4 DEF Reduced, Kinds, VerdictOf, TurnRead, AnswerRead
  <2> QED
    BY <2>3, <2>5, <2>7, <2>8 DEF AdapterInv
<1> QED
  BY <1>2, <1>3, <1>4

\* Goroutine B has seen every line, or decides.
LEMMA DecideSteps ==
  ASSUME AdapterInv, ScanEnds \/ AwaitResult
  PROVE  AdapterInv'
<1>1. AdapterTyped /\ Positions /\ WholeOutput /\ outcome = "none"
  BY DEF AdapterInv, ScanEnds, AwaitResult, Positions
<1>2. CASE ScanEnds
  <2>1. scan' \in [pc : {"scan", "emit", "result", "returned"}, line : Stream \cup {"none"}, pend : 0 .. 2]
        /\ scan'.pc = "result" /\ scan'.line = scan.line /\ scan.line # "long"
    BY <1>1, <1>2 DEF ScanEnds, AdapterTyped, Positions
  <2>2. AdapterTyped'
    BY <1>1, <1>2, <2>1 DEF ScanEnds, AdapterTyped
  <2>3. Positions' /\ WholeOutput'
    BY <1>1, <1>2, <2>1 DEF ScanEnds, Positions, WholeOutput, Running
  <2> QED
    BY <1>2, <2>1, <2>2, <2>3, NothingSaid DEF ScanEnds
<1>3. CASE AwaitResult
  <2>1. scan.pc = "result" /\ ~Running /\ outcome' = Outcome(red, cli.result) /\ scan' = [scan EXCEPT !.pc = "returned"]
        /\ UNCHANGED <<adapter, cli, ctx, chunks, fwd, red, events, lines>>
    BY <1>3 DEF AwaitResult
  <2>2. scan' \in [pc : {"scan", "emit", "result", "returned"}, line : Stream \cup {"none"}, pend : 0 .. 2]
        /\ scan'.pc = "returned" /\ scan'.line = scan.line
    BY <1>1, <2>1 DEF AdapterTyped
  <2>3. red \in Reductions /\ cli.result \in Results /\ adapter.schema \in BOOLEAN
        /\ adapter.name \in {"claude", "session", "codex", "droid", "goose"}
    BY <1>1, AdapterFacts DEF AdapterTyped
  <2>4. Outcome(red, cli.result) \in {"ok", "unparseable", "permission", "invalid", "launch", "exit"}
    BY <1>1, OutcomeTyped
  <2>5. AdapterTyped'
    BY <1>1, <2>1, <2>2, <2>4 DEF AdapterTyped
  <2>6. Positions' /\ WholeOutput'
    BY <1>1, <2>1, <2>2, <2>4 DEF Positions, WholeOutput, Running
  <2>7. Reduced(lines, red, scan.line = "long") /\ (\A S \in KindSets : HasLast(lines, S))
        /\ \A i \in DOMAIN lines : lines[i] \in Alphabet(adapter.name)
    BY DEF AdapterInv, Positions
  <2>8. PICK short \in BOOLEAN : short = (scan.line = "long")
    OBVIOUS
  <2>9. Reduced(lines, red, short)
    BY <2>7, <2>8
  <2>10. \A S : LastOf(S)' = LastIn(lines, S)
    BY <2>1 DEF LastOf, LastIn
  <2>11. OkIsEarned'
    BY <1>1, <2>1, <2>3, <2>7, <2>9, <2>10, EarnedOk DEF OkIsEarned
  <2>12. PermanentIsStated'
    BY <1>1, <2>1, <2>3, <2>7, <2>9, <2>10, StatedPermanent DEF PermanentIsStated
  <2>13. Reduced(lines, red, scan.line = "long")' /\ \A S \in KindSets : HasLast(lines', S)
    BY <2>1, <2>2, <2>7 DEF Reduced, Kinds, VerdictOf, TurnRead, AnswerRead
  <2> QED
    BY <2>5, <2>6, <2>11, <2>12, <2>13 DEF AdapterInv
<1> QED
  BY <1>2, <1>3

LEMMA AdapterSteps == AdapterInv /\ [AdapterNext]_adapterVars => AdapterInv'
<1> SUFFICES ASSUME AdapterInv, [AdapterNext]_adapterVars PROVE AdapterInv'
  OBVIOUS
<1>1. CASE UNCHANGED adapterVars
  <2>1. AdapterTyped' /\ Positions' /\ WholeOutput'
    BY <1>1 DEF AdapterInv, adapterVars, AdapterTyped, Positions, WholeOutput, Running
  <2> QED
    BY <1>1, <2>1, NothingSaid DEF adapterVars
<1> QED
  BY <1>1, ProcessSteps, ForwardSteps, ScanSteps, EmitSteps, DecideSteps DEF AdapterNext, GoroutineStep

\* One launch of claude, claudesession, codex, droid or goose, for any
\* transcript, either channel capacity and any interleaving of the two goroutines,
\* the process and the context: a success was said by the CLI and holds what the
\* step needs, a permanent failure was stated by the CLI, and both were decided
\* on everything it wrote.
THEOREM AdapterIsSafe == AdapterSpec => []AdapterSafe
<1>1. AdapterInv => AdapterSafe
  BY DEF AdapterInv, AdapterTyped, AdapterSafe, AdapterTypeOK
<1>2. AdapterSpec => []AdapterInv
  BY AdapterBegins, AdapterSteps, PTL DEF AdapterSpec
<1> QED
  BY <1>1, <1>2, PTL

-----------------------------------------------------------------------------
(* The app-server client.  First sequences without repetition.              *)

LEMMA NoElements ==
  ASSUME NEW e, e = <<>>
  PROVE  ToSet(e) = {} /\ IsInjective(e)
<1>1. \A i \in DOMAIN e : FALSE
  OBVIOUS
<1>2. ToSet(e) = {}
  BY <1>1 DEF ToSet
<1>3. IsInjective(e)
  BY <1>1 DEF IsInjective
<1> QED
  BY <1>2, <1>3

LEMMA ElementsIn ==
  ASSUME NEW S, NEW s \in Seq(S)
  PROVE  ToSet(s) \subseteq S
<1>1. DOMAIN s = 1 .. Len(s) /\ Len(s) \in Nat /\ \A i \in 1 .. Len(s) : s[i] \in S
  OBVIOUS
<1> QED
  BY <1>1 DEF ToSet

\* One more element.
LEMMA AppendNew ==
  ASSUME NEW S, NEW s \in Seq(S), NEW x \in S, IsInjective(s), x \notin ToSet(s)
  PROVE  IsInjective(Append(s, x)) /\ ToSet(Append(s, x)) = ToSet(s) \cup {x}
<1> DEFINE t == Append(s, x)
           n == Len(s)
<1>1. n \in Nat /\ DOMAIN s = 1 .. n /\ DOMAIN t = 1 .. n + 1 /\ t[n + 1] = x /\ \A i \in 1 .. n : t[i] = s[i]
  OBVIOUS
<1> HIDE DEF t, n
<1>2. \A i \in 1 .. n : s[i] # x
  BY <1>1 DEF ToSet
<1>3. \A i \in DOMAIN t : i \in 1 .. n \/ i = n + 1
  BY <1>1
<1>4. IsInjective(t)
  BY <1>1, <1>2, <1>3 DEF IsInjective
<1>5. ToSet(t) \subseteq ToSet(s) \cup {x}
  BY <1>1, <1>3 DEF ToSet
<1>6. ToSet(s) \cup {x} \subseteq ToSet(t)
  <2>1. n + 1 \in DOMAIN t /\ \A i \in 1 .. n : i \in DOMAIN t
    BY <1>1
  <2> QED
    BY <1>1, <2>1 DEF ToSet
<1> QED
  BY <1>4, <1>5, <1>6 DEF t

\* One element less.
LEMMA HeadTail ==
  ASSUME NEW S, NEW s \in Seq(S), s # <<>>, IsInjective(s)
  PROVE  /\ Head(s) \in ToSet(s) /\ Head(s) \in S /\ Tail(s) \in Seq(S)
         /\ IsInjective(Tail(s)) /\ ToSet(Tail(s)) = ToSet(s) \ {Head(s)}
<1> DEFINE t == Tail(s)
           n == Len(s)
<1>1. n \in Nat /\ n > 0 /\ DOMAIN s = 1 .. n /\ DOMAIN t = 1 .. n - 1 /\ Head(s) = s[1]
      /\ t \in Seq(S) /\ \A i \in 1 .. n - 1 : t[i] = s[i + 1]
  OBVIOUS
<1>2. Head(s) \in S
  OBVIOUS
<1> HIDE DEF t, n
<1>3. IsInjective(t)
  <2>1. ASSUME NEW i \in 1 .. n - 1, NEW j \in 1 .. n - 1, t[i] = t[j] PROVE i = j
    <3>1. i + 1 \in DOMAIN s /\ j + 1 \in DOMAIN s /\ s[i + 1] = s[j + 1]
      BY <1>1, <2>1
    <3>2. i + 1 = j + 1
      BY <3>1 DEF IsInjective
    <3> QED
      BY <1>1, <3>2
  <2> QED
    BY <1>1, <2>1 DEF IsInjective
<1>4. ToSet(t) \subseteq ToSet(s) \ {s[1]}
  <2>1. ASSUME NEW i \in 1 .. n - 1 PROVE t[i] \in ToSet(s) /\ t[i] # s[1]
    <3>1. i + 1 \in DOMAIN s /\ 1 \in DOMAIN s /\ i + 1 # 1
      BY <1>1
    <3> QED
      BY <1>1, <3>1 DEF ToSet, IsInjective
  <2> QED
    BY <1>1, <2>1 DEF ToSet
<1>5. ToSet(s) \ {s[1]} \subseteq ToSet(t)
  <2>1. ASSUME NEW i \in 1 .. n, s[i] # s[1] PROVE s[i] \in ToSet(t)
    <3>1. i # 1 /\ i - 1 \in 1 .. n - 1 /\ (i - 1) + 1 = i
      BY <1>1, <2>1
    <3> QED
      BY <1>1, <3>1 DEF ToSet
  <2> QED
    BY <1>1, <2>1 DEF ToSet
<1>6. s[1] \in ToSet(s)
  BY <1>1 DEF ToSet
<1> QED
  BY <1>1, <1>2, <1>3, <1>4, <1>5, <1>6 DEF t

\* Two sequences without a common element.
LEMMA Concatenated ==
  ASSUME NEW S, NEW s \in Seq(S), NEW u \in Seq(S), IsInjective(s), IsInjective(u), ToSet(s) \cap ToSet(u) = {}
  PROVE  s \o u \in Seq(S) /\ IsInjective(s \o u) /\ ToSet(s \o u) = ToSet(s) \cup ToSet(u)
<1> DEFINE t == s \o u
           n == Len(s)
           m == Len(u)
<1>1. n \in Nat /\ m \in Nat /\ DOMAIN s = 1 .. n /\ DOMAIN u = 1 .. m /\ t \in Seq(S) /\ Len(t) = n + m
      /\ DOMAIN t = 1 .. n + m /\ (\A i \in 1 .. n : t[i] = s[i])
  OBVIOUS
<1>2. \A i \in 1 .. m : t[n + i] = u[i]
  OBVIOUS
<1> HIDE DEF t, n, m
<1>3. ASSUME NEW i \in DOMAIN t PROVE (i \in 1 .. n /\ t[i] = s[i]) \/ (i - n \in 1 .. m /\ t[i] = u[i - n])
  <2>1. CASE i \in 1 .. n
    BY <1>1, <2>1
  <2>2. CASE i \notin 1 .. n
    <3>1. i - n \in 1 .. m /\ n + (i - n) = i
      BY <1>1, <2>2
    <3> QED
      BY <1>2, <3>1
  <2> QED
    BY <2>1, <2>2
<1>4. \A i \in 1 .. n : \A j \in 1 .. m : s[i] # u[j]
  BY <1>1 DEF ToSet
<1>5. IsInjective(t)
  <2>1. ASSUME NEW i \in DOMAIN t, NEW j \in DOMAIN t, t[i] = t[j] PROVE i = j
    <3>1. CASE i \in 1 .. n /\ t[i] = s[i]
      <4>1. j \in 1 .. n /\ t[j] = s[j]
        BY <1>3, <1>4, <2>1, <3>1
      <4> QED
        BY <1>1, <2>1, <3>1, <4>1 DEF IsInjective
    <3>2. CASE i - n \in 1 .. m /\ t[i] = u[i - n]
      <4>1. j - n \in 1 .. m /\ t[j] = u[j - n]
        BY <1>3, <1>4, <2>1, <3>2
      <4>2. i - n = j - n
        BY <1>1, <2>1, <3>2, <4>1 DEF IsInjective
      <4> QED
        BY <1>1, <4>2
    <3> QED
      BY <1>3, <3>1, <3>2
  <2> QED
    BY <2>1 DEF IsInjective
<1>6. ToSet(t) \subseteq ToSet(s) \cup ToSet(u)
  BY <1>1, <1>3 DEF ToSet
<1>7. ToSet(s) \subseteq ToSet(t)
  BY <1>1 DEF ToSet
<1>8. ToSet(u) \subseteq ToSet(t)
  <2>1. \A j \in 1 .. m : n + j \in DOMAIN t
    BY <1>1
  <2> QED
    BY <1>1, <1>2, <2>1 DEF ToSet
<1> QED
  BY <1>1, <1>5, <1>6, <1>7, <1>8 DEF t

\* The sequence of a set of at most one element.
LEMMA SmallSetToSeq ==
  ASSUME NEW S, NEW x \in S, NEW A, A = {} \/ A = {x}
  PROVE  SetToSeq(A) \in Seq(S) /\ IsInjective(SetToSeq(A)) /\ ToSet(SetToSeq(A)) = A
<1> DEFINE n == Cardinality(A)
<1>1. CASE A = {}
  <2>1. n = 0
    BY <1>1, FS_EmptySet
  <2>2. [i \in 1 .. n |-> x] \in [1 .. n -> A] /\ IsInjective([i \in 1 .. n |-> x])
    BY <1>1, <2>1 DEF IsInjective
  <2> DEFINE f == SetToSeq(A)
  <2>3. f \in [1 .. n -> A] /\ IsInjective(f)
    BY <2>2 DEF SetToSeq
  <2> HIDE DEF f
  <2>4. DOMAIN f = {} /\ ToSet(f) = {}
    BY <2>1, <2>3 DEF ToSet
  <2>5. f \in [1 .. n -> S] /\ n \in Nat
    BY <1>1, <2>1, <2>3
  <2>6. f \in Seq(S)
    BY <2>5
  <2> QED
    BY <1>1, <2>3, <2>4, <2>6 DEF f
<1>2. CASE A = {x}
  <2>1. n = 1
    BY <1>2, FS_Singleton
  <2>2. [i \in 1 .. n |-> x] \in [1 .. n -> A] /\ IsInjective([i \in 1 .. n |-> x])
    BY <1>2, <2>1 DEF IsInjective
  <2> DEFINE f == SetToSeq(A)
  <2>3. f \in [1 .. n -> A] /\ IsInjective(f)
    BY <2>2 DEF SetToSeq
  <2> HIDE DEF f
  <2>4. DOMAIN f = {1} /\ f[1] = x
    BY <1>2, <2>1, <2>3
  <2>5. ToSet(f) = {x}
    BY <2>4 DEF ToSet
  <2>6. f \in [1 .. n -> S] /\ n \in Nat
    BY <1>2, <2>1, <2>3
  <2>7. f \in Seq(S)
    BY <2>6
  <2> QED
    BY <1>2, <2>3, <2>5, <2>7 DEF f
<1> QED
  BY <1>1, <1>2

-----------------------------------------------------------------------------
(* The invariant, caller by caller.                                         *)

CallerLabels == {"idle", "spawn", "call", "wait", "register", "push", "push and close", "drain", "leave", "closing", "done"}
Lines == [kind : {"response", "event"}, of : Callers, ev : Nat]

ClientTyped ==
  /\ server \in Servers \cup {0} /\ born \in Nat /\ born \in Servers \cup {0}
  /\ alive \subseteq 1 .. born /\ alive \subseteq Servers
  /\ out \in [Servers -> Seq(Lines)] /\ asks \in [Callers -> Servers \cup {0}]
  /\ answered \subseteq Callers /\ sent \in [Callers -> Nat]
  /\ pending \subseteq Callers /\ turns \subseteq Callers /\ earlyClosed \subseteq Callers /\ shut \subseteq Callers
  /\ cut \subseteq Callers /\ overtaken \subseteq Callers /\ resp \in [Callers -> {"none", "result", "closed"}]
  /\ early \in [Callers -> Seq(Nat)] /\ hold \in [Callers -> Seq(Nat)] /\ got \in [Callers -> Seq(Nat)]
  /\ chan \in [Callers -> [buf : Seq(Nat), cap : Nat]]
  /\ reader \in [Servers -> [do : {"scan", "send", "close", "over", "deaf"}, of : Callers \cup {"none"}, ev : Nat]]
  /\ \A s \in Servers : reader[s].do \in {"send", "close"} => reader[s].of \in Callers
  /\ step \in [Callers -> CallerLabels] /\ grabbed \in [Callers -> SUBSET Callers]
  /\ panicked \in BOOLEAN

\* a line is an event of c; the reader of t sends one
EventOf(l, c) == l.kind = "event" /\ l.of = c
Sends(t, c) == reader[t].do = "send" /\ reader[t].of = c

\* a wire w holds the events r + 1 .. n of c, in their order
OnWire(w, c, r, n) ==
  /\ \A i \in 1 .. Len(w) : EventOf(w[i], c) => w[i].ev \in r + 1 .. n
  /\ \A i, j \in 1 .. Len(w) : i < j /\ EventOf(w[i], c) /\ EventOf(w[j], c) => w[i].ev < w[j].ev
  /\ \A v \in r + 1 .. n : \E i \in 1 .. Len(w) : EventOf(w[i], c) /\ w[i].ev = v

\* the five places an event can be in behind the wire, one of them a reader's hand
InHand(c) == {reader[s].ev : s \in {t \in Servers : reader[t].do = "send" /\ reader[t].of = c}}
Parted(A, B, C, D, E) ==
  /\ A \cap B = {} /\ A \cap C = {} /\ A \cap D = {} /\ A \cap E = {} /\ B \cap C = {}
  /\ B \cap D = {} /\ B \cap E = {} /\ C \cap D = {} /\ C \cap E = {} /\ D \cap E = {}
Kept(c, r) ==
  /\ IsInjective(got[c]) /\ IsInjective(chan[c].buf) /\ IsInjective(hold[c]) /\ IsInjective(early[c])
  /\ Parted(ToSet(got[c]), ToSet(chan[c].buf), ToSet(hold[c]), ToSet(early[c]), InHand(c))
  /\ ToSet(got[c]) \cup ToSet(chan[c].buf) \cup ToSet(hold[c]) \cup ToSet(early[c]) \cup InHand(c) = 1 .. r
Spread(c) == \E r \in 0 .. sent[c] : OnWire(out[asks[c]], c, r, sent[c]) /\ Kept(c, r)

\* before its registration no event of a turn is in or behind its channel
Unregistered == NotCalled \cup {"wait", "register"}
OwnWire(c) ==
  \A t \in Servers : t # asks[c] => ~Sends(t, c) /\ \A i \in 1 .. Len(out[t]) : ~EventOf(out[t][i], c)
Fresh(c) ==
  step[c] \in Unregistered =>
    c \notin turns /\ chan[c].buf = <<>> /\ hold[c] = <<>> /\ got[c] = <<>> /\ \A t \in Servers : ~Sends(t, c)
CallOf(c) ==
  /\ c \in pending => step[c] = "wait" /\ resp[c] = "none"
  /\ step[c] \in NotCalled => resp[c] = "none" /\ asks[c] = 0
  /\ step[c] \in {"wait", "register", "push", "push and close", "drain"} => asks[c] # 0
  /\ step[c] = "wait" /\ c \notin cut => c \in pending \/ resp[c] # "none"
CallerInv(c) ==
  /\ Len(chan[c].buf) <= chan[c].cap
  /\ asks[c] = 0 => sent[c] = 0 /\ early[c] = <<>>
  /\ CallOf(c) /\ OwnWire(c) /\ Fresh(c)
  /\ UnderWay(c) /\ c \notin cut /\ ~panicked => Spread(c)
ClientInv == ClientTyped /\ \A c \in Callers : CallerInv(c)

-----------------------------------------------------------------------------
(* Wires.                                                                   *)

\* The next event of c is written.
LEMMA WireGrows ==
  ASSUME NEW w \in Seq(Lines), NEW c \in Callers, NEW n \in Nat, NEW r \in 0 .. n, OnWire(w, c, r, n),
         NEW l \in Lines, EventOf(l, c), l.ev = n + 1
  PROVE  OnWire(Append(w, l), c, r, n + 1)
<1> DEFINE u == Append(w, l)
           k == Len(w)
<1>1. k \in Nat /\ Len(u) = k + 1 /\ u[k + 1] = l /\ \A i \in 1 .. k : u[i] = w[i]
  OBVIOUS
<1> HIDE DEF u, k
<1>2. \A i \in 1 .. Len(u) : (i \in 1 .. k /\ u[i] = w[i]) \/ (i = k + 1 /\ u[i] = l)
  BY <1>1
<1>3. r \in Nat /\ r <= n
  OBVIOUS
<1>4. (\A i \in 1 .. k : EventOf(w[i], c) => w[i].ev \in r + 1 .. n)
      /\ (\A i, j \in 1 .. k : i < j /\ EventOf(w[i], c) /\ EventOf(w[j], c) => w[i].ev < w[j].ev)
      /\ \A v \in r + 1 .. n : \E i \in 1 .. k : EventOf(w[i], c) /\ w[i].ev = v
  BY DEF OnWire, k
<1>5. ASSUME NEW i \in 1 .. Len(u), EventOf(u[i], c) PROVE u[i].ev \in r + 1 .. n + 1
  BY <1>2, <1>3, <1>4, <1>5
<1>6. ASSUME NEW i \in 1 .. Len(u), NEW j \in 1 .. Len(u), i < j, EventOf(u[i], c), EventOf(u[j], c)
      PROVE  u[i].ev < u[j].ev
  <2>1. i \in 1 .. k /\ u[i] = w[i]
    BY <1>1, <1>2, <1>6
  <2>2. u[i].ev \in r + 1 .. n
    BY <1>4, <1>6, <2>1
  <2>3. CASE j = k + 1 /\ u[j] = l
    BY <1>3, <2>2, <2>3
  <2>4. CASE j \in 1 .. k /\ u[j] = w[j]
    BY <1>4, <1>6, <2>1, <2>4
  <2> QED
    BY <1>2, <2>3, <2>4
<1>7. ASSUME NEW v \in r + 1 .. n + 1 PROVE \E i \in 1 .. Len(u) : EventOf(u[i], c) /\ u[i].ev = v
  <2>1. CASE v = n + 1
    BY <1>1, <2>1
  <2>2. CASE v # n + 1
    <3>1. v \in r + 1 .. n
      BY <1>3, <2>2
    <3>2. PICK i \in 1 .. k : EventOf(w[i], c) /\ w[i].ev = v
      BY <1>4, <3>1
    <3> QED
      BY <1>1, <3>2
  <2> QED
    BY <2>1, <2>2
<1> QED
  BY <1>5, <1>6, <1>7 DEF OnWire, u

\* The first event on the wire is the next one.
LEMMA WireHead ==
  ASSUME NEW w \in Seq(Lines), NEW c \in Callers, NEW n \in Nat, NEW r \in 0 .. n, OnWire(w, c, r, n),
         w # <<>>, EventOf(Head(w), c)
  PROVE  Head(w).ev = r + 1 /\ r + 1 \in 0 .. n /\ OnWire(Tail(w), c, r + 1, n)
<1> DEFINE u == Tail(w)
           k == Len(w)
<1>1. k \in Nat /\ k > 0 /\ Len(u) = k - 1 /\ Head(w) = w[1] /\ \A i \in 1 .. k - 1 : u[i] = w[i + 1]
  OBVIOUS
<1>2. \A i \in 1 .. k : w[i] \in Lines
  OBVIOUS
<1>3. (\A i \in 1 .. k : EventOf(w[i], c) => w[i].ev \in r + 1 .. n)
      /\ (\A i, j \in 1 .. k : i < j /\ EventOf(w[i], c) /\ EventOf(w[j], c) => w[i].ev < w[j].ev)
      /\ \A v \in r + 1 .. n : \E i \in 1 .. k : EventOf(w[i], c) /\ w[i].ev = v
  BY DEF OnWire
<1> HIDE DEF u, k
<1>4. r \in Nat /\ 1 \in 1 .. k /\ w[1].ev \in r + 1 .. n
  BY <1>1, <1>3
<1>5. w[1].ev = r + 1
  <2>1. PICK i \in 1 .. k : EventOf(w[i], c) /\ w[i].ev = r + 1
    BY <1>3, <1>4
  <2>2. CASE i = 1
    BY <2>1, <2>2
  <2>3. CASE i # 1
    <3>1. 1 < i
      BY <1>1, <2>3
    <3>2. w[1].ev < r + 1
      BY <1>1, <1>3, <1>4, <2>1, <3>1
    <3> QED
      BY <1>4, <3>2
  <2> QED
    BY <2>2, <2>3
<1>6. ASSUME NEW i \in 1 .. Len(u), EventOf(u[i], c) PROVE u[i].ev \in (r + 1) + 1 .. n
  <2>1. i + 1 \in 1 .. k /\ u[i] = w[i + 1] /\ 1 < i + 1
    BY <1>1
  <2>2. w[i + 1].ev \in r + 1 .. n /\ w[1].ev < w[i + 1].ev
    BY <1>1, <1>3, <1>4, <1>6, <2>1
  <2> QED
    BY <1>4, <1>5, <2>1, <2>2
<1>7. ASSUME NEW i \in 1 .. Len(u), NEW j \in 1 .. Len(u), i < j, EventOf(u[i], c), EventOf(u[j], c)
      PROVE  u[i].ev < u[j].ev
  <2>1. i + 1 \in 1 .. k /\ j + 1 \in 1 .. k /\ i + 1 < j + 1 /\ u[i] = w[i + 1] /\ u[j] = w[j + 1]
    BY <1>1, <1>7
  <2> QED
    BY <1>3, <1>7, <2>1
<1>8. ASSUME NEW v \in (r + 1) + 1 .. n PROVE \E i \in 1 .. Len(u) : EventOf(u[i], c) /\ u[i].ev = v
  <2>1. v \in r + 1 .. n /\ v # r + 1
    BY <1>4
  <2>2. PICK i \in 1 .. k : EventOf(w[i], c) /\ w[i].ev = v
    BY <1>3, <2>1
  <2>3. i # 1
    BY <1>5, <2>1, <2>2
  <2>4. i - 1 \in 1 .. Len(u) /\ (i - 1) + 1 = i /\ i - 1 \in 1 .. k - 1
    BY <1>1, <2>3
  <2>5. u[i - 1] = w[i]
    BY <1>1, <2>4
  <2> QED
    BY <2>2, <2>4, <2>5
<1>9. r + 1 \in 0 .. n
  BY <1>4, <1>5
<1> QED
  BY <1>1, <1>5, <1>6, <1>7, <1>8, <1>9 DEF OnWire, u

\* Lines of others come and go.
LEMMA WireOther ==
  ASSUME NEW w \in Seq(Lines), NEW c \in Callers, NEW n \in Nat, NEW r \in 0 .. n, OnWire(w, c, r, n)
  PROVE  /\ \A l \in Lines : ~EventOf(l, c) => OnWire(Append(w, l), c, r, n)
         /\ w # <<>> /\ ~EventOf(Head(w), c) => OnWire(Tail(w), c, r, n)
<1> DEFINE k == Len(w)
<1>1. k \in Nat
  OBVIOUS
<1>2. (\A i \in 1 .. k : EventOf(w[i], c) => w[i].ev \in r + 1 .. n)
      /\ (\A i, j \in 1 .. k : i < j /\ EventOf(w[i], c) /\ EventOf(w[j], c) => w[i].ev < w[j].ev)
      /\ \A v \in r + 1 .. n : \E i \in 1 .. k : EventOf(w[i], c) /\ w[i].ev = v
  BY DEF OnWire
<1>3. ASSUME NEW l \in Lines, ~EventOf(l, c) PROVE OnWire(Append(w, l), c, r, n)
  <2> DEFINE u == Append(w, l)
  <2>1. Len(u) = k + 1 /\ u[k + 1] = l /\ \A i \in 1 .. k : u[i] = w[i]
    OBVIOUS
  <2> HIDE DEF u, k
  <2>2. \A i \in 1 .. Len(u) : EventOf(u[i], c) => i \in 1 .. k /\ u[i] = w[i]
    BY <1>1, <1>3, <2>1
  <2>3. \A v \in r + 1 .. n : \E i \in 1 .. Len(u) : EventOf(u[i], c) /\ u[i].ev = v
    <3>1. \A i \in 1 .. k : i \in 1 .. Len(u)
      BY <1>1, <2>1
    <3> QED
      BY <1>2, <2>1, <3>1
  <2>4. OnWire(u, c, r, n)
    BY <1>2, <2>2, <2>3 DEF OnWire
  <2> QED
    BY <2>4 DEF u
<1>4. ASSUME w # <<>>, ~EventOf(Head(w), c) PROVE OnWire(Tail(w), c, r, n)
  <2> DEFINE u == Tail(w)
  <2>1. k > 0 /\ Len(u) = k - 1 /\ Head(w) = w[1] /\ \A i \in 1 .. k - 1 : u[i] = w[i + 1]
    BY <1>4
  <2> HIDE DEF u, k
  <2>2. \A i \in 1 .. Len(u) : i + 1 \in 1 .. k /\ u[i] = w[i + 1]
    BY <1>1, <2>1
  <2>3. ASSUME NEW i \in 1 .. Len(u), NEW j \in 1 .. Len(u), i < j, EventOf(u[i], c), EventOf(u[j], c)
        PROVE  u[i].ev < u[j].ev
    <3>1. i + 1 < j + 1
      BY <1>1, <2>1, <2>3
    <3> QED
      BY <1>2, <2>2, <2>3, <3>1
  <2>4. ASSUME NEW v \in r + 1 .. n PROVE \E i \in 1 .. Len(u) : EventOf(u[i], c) /\ u[i].ev = v
    <3>1. PICK i \in 1 .. k : EventOf(w[i], c) /\ w[i].ev = v
      BY <1>2
    <3>2. i # 1
      BY <1>4, <2>1, <3>1
    <3>3. i - 1 \in 1 .. Len(u) /\ (i - 1) + 1 = i /\ i - 1 \in 1 .. k - 1
      BY <1>1, <2>1, <3>2
    <3>4. u[i - 1] = w[i]
      BY <2>1, <3>3
    <3> QED
      BY <3>1, <3>3, <3>4
  <2>5. OnWire(u, c, r, n)
    BY <1>2, <2>2, <2>3, <2>4 DEF OnWire
  <2> QED
    BY <2>5 DEF u
<1> QED
  BY <1>3, <1>4

-----------------------------------------------------------------------------
(* What the invariant says of the properties.                               *)

\* The events on the wire are as many as were written and not read.
LEMMA WireCounted ==
  ASSUME NEW w \in Seq(Lines), NEW c \in Callers, NEW n \in Nat, NEW r \in 0 .. n, OnWire(w, c, r, n)
  PROVE  Cardinality({i \in 1 .. Len(w) : w[i].kind = "event" /\ w[i].of = c}) = n - r
<1> DEFINE I == {i \in 1 .. Len(w) : w[i].kind = "event" /\ w[i].of = c}
           T == r + 1 .. n
           f == [i \in I |-> w[i].ev]
<1>1. r \in Nat /\ r <= n /\ Len(w) \in Nat
  OBVIOUS
<1>2. IsFiniteSet(I)
  <2>1. IsFiniteSet(1 .. Len(w))
    BY <1>1, FS_Interval
  <2>2. I \subseteq 1 .. Len(w)
    OBVIOUS
  <2> QED
    BY <2>1, <2>2, FS_Subset
<1>3. Cardinality(T) = n - r
  <2>1. Cardinality(T) = IF r + 1 > n THEN 0 ELSE n - (r + 1) + 1
    BY <1>1, FS_Interval
  <2> QED
    BY <1>1, <2>1
<1>4. (\A i \in I : w[i].ev \in T) /\ (\A i, j \in I : i < j => w[i].ev < w[j].ev) /\ \A v \in T : \E i \in I : w[i].ev = v
  BY DEF OnWire, EventOf
<1>5. \A i \in I : i \in Nat
  OBVIOUS
<1> HIDE DEF I, T
<1>6. f \in [I -> T]
  BY <1>4
<1>7. ASSUME NEW i \in I, NEW j \in I, f[i] = f[j] PROVE i = j
  <2>1. w[i].ev = w[j].ev /\ w[i].ev \in Nat /\ i \in Nat /\ j \in Nat
    BY <1>1, <1>4, <1>5, <1>7 DEF T
  <2>2. ~(i < j) /\ ~(j < i)
    BY <1>4, <2>1
  <2> QED
    BY <2>1, <2>2
<1>8. \A v \in T : \E i \in I : f[i] = v
  BY <1>4
<1> HIDE DEF f
<1>9. f \in Bijection(I, T)
  BY <1>6, <1>7, <1>8 DEF Bijection, Injection, Surjection, IsInjective
<1>10. Cardinality(T) = Cardinality(I)
  BY <1>2, <1>9, FS_Bijection DEF ExistsBijection
<1> QED
  BY <1>3, <1>10 DEF I

\* At most one reader has an event of c in hand.
LEMMA OneHand ==
  ASSUME ClientTyped, NEW c \in Callers, OwnWire(c), asks[c] \in Servers
  PROVE  /\ InHand(c) = {} \/ InHand(c) = {reader[asks[c]].ev}
         /\ reader[asks[c]].ev \in Nat
         /\ InHand(c) = IF Sends(asks[c], c) THEN {reader[asks[c]].ev} ELSE {}
<1>1. reader[asks[c]].ev \in Nat
  BY DEF ClientTyped
<1>2. \A t \in Servers : reader[t].do = "send" /\ reader[t].of = c => t = asks[c]
  BY DEF OwnWire, Sends
<1>3. InHand(c) = IF Sends(asks[c], c) THEN {reader[asks[c]].ev} ELSE {}
  BY <1>2 DEF InHand, Sends
<1> QED
  BY <1>1, <1>3

\* The events of a turn are accounted for.
LEMMA Accounted ==
  ASSUME ClientInv, NEW c \in Callers, UnderWay(c), c \notin cut, ~panicked
  PROVE  IsInjective(Places(c)) /\ ToSet(Places(c)) = 1 .. (sent[c] - Cardinality(InWire(c)))
<1>1. ClientTyped /\ CallerInv(c) /\ Spread(c)
  BY DEF ClientInv, CallerInv
<1>2. asks[c] \in Servers /\ out[asks[c]] \in Seq(Lines) /\ sent[c] \in Nat
      /\ got[c] \in Seq(Nat) /\ chan[c].buf \in Seq(Nat) /\ hold[c] \in Seq(Nat) /\ early[c] \in Seq(Nat)
  <2>1. asks[c] # 0
    BY <1>1 DEF CallerInv, CallOf, UnderWay, NotCalled, Through, ClientTyped, CallerLabels
  <2> QED
    BY <1>1, <2>1 DEF ClientTyped
<1>3. PICK r \in 0 .. sent[c] : OnWire(out[asks[c]], c, r, sent[c]) /\ Kept(c, r)
  BY <1>1 DEF Spread
<1>4. Cardinality(InWire(c)) = sent[c] - r
  BY <1>2, <1>3, WireCounted DEF InWire
<1>5. sent[c] - Cardinality(InWire(c)) = r
  BY <1>2, <1>4
<1> DEFINE H == SetToSeq(InHand(c))
           g == got[c]
           b == chan[c].buf
           h == hold[c]
           e == early[c]
<1>6. H \in Seq(Nat) /\ IsInjective(H) /\ ToSet(H) = InHand(c)
  BY <1>1, <1>2, OneHand, SmallSetToSeq DEF CallerInv
<1>7. /\ IsInjective(g) /\ IsInjective(b) /\ IsInjective(h) /\ IsInjective(e)
      /\ Parted(ToSet(g), ToSet(b), ToSet(h), ToSet(e), ToSet(H))
      /\ ToSet(g) \cup ToSet(b) \cup ToSet(h) \cup ToSet(e) \cup ToSet(H) = 1 .. r
      /\ g \in Seq(Nat) /\ b \in Seq(Nat) /\ h \in Seq(Nat) /\ e \in Seq(Nat)
      /\ H \in Seq(Nat) /\ IsInjective(H)
  BY <1>2, <1>3, <1>6 DEF Kept
<1>8. Places(c) = g \o b \o h \o e \o H
  BY DEF Places, InHand
<1> HIDE DEF g, b, h, e, H
<1>9. (g \o b) \in Seq(Nat) /\ IsInjective(g \o b) /\ ToSet(g \o b) = ToSet(g) \cup ToSet(b)
  BY <1>7, Concatenated DEF Parted
<1> DEFINE q == g \o b
           p == q \o h
<1> HIDE DEF q
<1>10. p \in Seq(Nat) /\ IsInjective(p) /\ ToSet(p) = ToSet(g) \cup ToSet(b) \cup ToSet(h)
  <2>1. q \in Seq(Nat) /\ IsInjective(q) /\ ToSet(q) = ToSet(g) \cup ToSet(b)
    BY <1>9 DEF q
  <2>2. ToSet(q) \cap ToSet(h) = {}
    BY <1>7, <2>1 DEF Parted
  <2>3. p \in Seq(Nat) /\ IsInjective(p) /\ ToSet(p) = ToSet(q) \cup ToSet(h)
    BY <1>7, <2>1, <2>2, Concatenated
  <2> QED
    BY <2>1, <2>3
<1> HIDE DEF p
<1> DEFINE a == p \o e
<1>11. a \in Seq(Nat) /\ IsInjective(a) /\ ToSet(a) = ToSet(g) \cup ToSet(b) \cup ToSet(h) \cup ToSet(e)
  <2>1. ToSet(p) \cap ToSet(e) = {}
    BY <1>7, <1>10 DEF Parted
  <2>2. a \in Seq(Nat) /\ IsInjective(a) /\ ToSet(a) = ToSet(p) \cup ToSet(e)
    BY <1>7, <1>10, <2>1, Concatenated
  <2> QED
    BY <1>10, <2>2
<1> HIDE DEF a
<1>12. IsInjective(a \o H) /\ ToSet(a \o H) = 1 .. r
  <2>1. ToSet(a) \cap ToSet(H) = {}
    BY <1>7, <1>11 DEF Parted
  <2>2. IsInjective(a \o H) /\ ToSet(a \o H) = ToSet(a) \cup ToSet(H)
    BY <1>7, <1>11, <2>1, Concatenated
  <2> QED
    BY <1>7, <1>11, <2>2
<1> QED
  BY <1>5, <1>8, <1>12 DEF a, p, q

-----------------------------------------------------------------------------
(* What a step of somebody else leaves alone.                               *)

WireSame(d) ==
  \A t \in Servers :
    \/ out'[t] = out[t]
    \/ \E l \in Lines : ~EventOf(l, d) /\ out'[t] = Append(out[t], l)
    \/ out[t] # <<>> /\ ~EventOf(Head(out[t]), d) /\ out'[t] = Tail(out[t])
HandsSame(d) ==
  \A t \in Servers : (Sends(t, d)' <=> Sends(t, d)) /\ (Sends(t, d) => reader'[t].ev = reader[t].ev)
EventsSame(d) ==
  /\ asks'[d] = asks[d] /\ sent'[d] = sent[d] /\ early'[d] = early[d] /\ chan'[d].buf = chan[d].buf
  /\ hold'[d] = hold[d] /\ got'[d] = got[d]
CallSame(d) ==
  /\ step'[d] = step[d] /\ resp'[d] = resp[d] /\ (d \in pending' <=> d \in pending)
  /\ d \in cut => d \in cut'

LEMMA OwnWireKept ==
  ASSUME ClientTyped, NEW d \in Callers, OwnWire(d), asks'[d] = asks[d], HandsSame(d), WireSame(d)
  PROVE  OwnWire(d)'
<1> SUFFICES ASSUME NEW t \in Servers, t # asks[d]
             PROVE  ~Sends(t, d)' /\ \A i \in 1 .. Len(out'[t]) : ~EventOf(out'[t][i], d)
  BY DEF OwnWire, EventOf, Sends
<1>1. ~Sends(t, d) /\ \A i \in 1 .. Len(out[t]) : ~EventOf(out[t][i], d)
  BY DEF OwnWire
<1>2. ~Sends(t, d)'
  BY <1>1 DEF HandsSame
<1>3. out[t] \in Seq(Lines)
  BY DEF ClientTyped
<1>4. CASE out'[t] = out[t]
  BY <1>1, <1>2, <1>4
<1>5. ASSUME NEW l \in Lines, ~EventOf(l, d), out'[t] = Append(out[t], l)
      PROVE  \A i \in 1 .. Len(out'[t]) : ~EventOf(out'[t][i], d)
  <2>1. ASSUME NEW i \in 1 .. Len(out'[t])
        PROVE  (i \in 1 .. Len(out[t]) /\ out'[t][i] = out[t][i]) \/ out'[t][i] = l
    BY <1>3, <1>5
  <2> QED
    BY <1>1, <1>5, <2>1
<1>6. CASE out[t] # <<>> /\ out'[t] = Tail(out[t])
  <2>1. ASSUME NEW i \in 1 .. Len(out'[t]) PROVE i + 1 \in 1 .. Len(out[t]) /\ out'[t][i] = out[t][i + 1]
    BY <1>3, <1>6
  <2> QED
    BY <1>1, <1>2, <2>1
<1> QED
  BY <1>2, <1>4, <1>5, <1>6 DEF WireSame

LEMMA SpreadKept ==
  ASSUME ClientTyped, NEW d \in Callers, Spread(d), asks[d] \in Servers, OwnWire(d), EventsSame(d), HandsSame(d), WireSame(d)
  PROVE  Spread(d)'
<1> DEFINE t == asks[d]
           n == sent[d]
<1>1. n \in Nat /\ out[t] \in Seq(Lines)
  BY DEF ClientTyped
<1>2. PICK r \in 0 .. n : OnWire(out[t], d, r, n) /\ Kept(d, r)
  BY DEF Spread
<1>3. OnWire(out'[t], d, r, n)
  <2>1. CASE out'[t] = out[t]
    BY <1>2, <2>1
  <2>2. ASSUME NEW l \in Lines, ~EventOf(l, d), out'[t] = Append(out[t], l) PROVE OnWire(out'[t], d, r, n)
    BY <1>1, <1>2, <2>2, WireOther
  <2>3. CASE out[t] # <<>> /\ ~EventOf(Head(out[t]), d) /\ out'[t] = Tail(out[t])
    BY <1>1, <1>2, <2>3, WireOther
  <2> QED
    BY <2>1, <2>2, <2>3 DEF WireSame
<1>4. InHand(d)' = InHand(d)
  BY DEF HandsSame, InHand, Sends
<1>5. Kept(d, r)'
  BY <1>2, <1>4 DEF EventsSame, Kept
<1>6. n' = n /\ out'[asks'[d]] = out'[t]
  BY DEF EventsSame
<1> QED
  BY <1>3, <1>5, <1>6 DEF Spread, OnWire, EventOf

\* Another way to keep what is known of d: its wire is untouched.
LEMMA SpreadMoved ==
  ASSUME NEW d \in Callers, NEW r \in 0 .. sent[d], OnWire(out[asks[d]], d, r, sent[d]), Kept(d, r)',
         out' = out, asks' = asks, sent' = sent
  PROVE  Spread(d)'
BY DEF Spread, OnWire, EventOf

\* The call of d is where it was.
LEMMA CallKept ==
  ASSUME NEW d \in Callers, CallOf(d), CallSame(d), asks'[d] = asks[d]
  PROVE  CallOf(d)'
BY DEF CallOf, CallSame

\* A caller whose turn has asked a server.
LEMMA HasAsked ==
  ASSUME ClientTyped, NEW d \in Callers, CallerInv(d), UnderWay(d)
  PROVE  asks[d] \in Servers /\ step[d] \in {"wait", "register", "push", "push and close", "drain"}
<1>1. step[d] \in {"wait", "register", "push", "push and close", "drain"}
  BY DEF ClientTyped, UnderWay, NotCalled, Through, CallerLabels
<1> QED
  BY <1>1 DEF ClientTyped, CallerInv, CallOf

LEMMA CallerKept ==
  ASSUME ClientInv, NEW d \in Callers, EventsSame(d), HandsSame(d), WireSame(d), chan'[d].cap = chan[d].cap,
         step'[d] = step[d], CallOf(d)', d \in turns' => d \in turns, d \in cut => d \in cut', panicked => panicked'
  PROVE  CallerInv(d)'
<1>1. ClientTyped /\ CallerInv(d)
  BY DEF ClientInv
<1>2. OwnWire(d)'
  BY <1>1, OwnWireKept DEF CallerInv, EventsSame
<1>3. Len(chan'[d].buf) <= chan'[d].cap /\ (asks'[d] = 0 => sent'[d] = 0 /\ early'[d] = <<>>)
  BY <1>1 DEF CallerInv, EventsSame
<1>4. Fresh(d)'
  BY <1>1 DEF CallerInv, EventsSame, HandsSame, Fresh
<1>5. UnderWay(d)' /\ d \notin cut' /\ ~panicked' => Spread(d)'
  <2> SUFFICES ASSUME UnderWay(d), d \notin cut, ~panicked PROVE Spread(d)'
    BY DEF UnderWay
  <2> QED
    BY <1>1, HasAsked, SpreadKept DEF CallerInv
<1> QED
  BY <1>2, <1>3, <1>4, <1>5 DEF CallerInv

\* The tables were emptied under d.
LEMMA CallerCut ==
  ASSUME ClientInv, NEW d \in Callers, UNCHANGED <<out, reader, asks, sent, resp, chan, hold, got>>,
         step'[d] = step[d], early'[d] = <<>>, d \notin turns', d \in pending' => d \in pending,
         UnderWay(d) => d \in cut'
  PROVE  CallerInv(d)'
<1>1. ClientTyped /\ CallerInv(d)
  BY DEF ClientInv
<1>2. CallOf(d)'
  <2>1. step[d] = "wait" => d \in cut'
    BY DEF UnderWay, NotCalled, Through
  <2> QED
    BY <1>1, <2>1 DEF CallerInv, CallOf
<1>3. OwnWire(d)' /\ Fresh(d)'
  BY <1>1 DEF CallerInv, OwnWire, Fresh, Sends
<1>4. ~(UnderWay(d)' /\ d \notin cut')
  BY DEF UnderWay
<1> QED
  BY <1>1, <1>2, <1>3, <1>4 DEF CallerInv

\* A step that ends a call or a turn leaves nothing to account for.
LEMMA CallerLeaves ==
  ASSUME ClientInv, NEW d \in Callers, EventsSame(d), HandsSame(d), WireSame(d), chan'[d].cap = chan[d].cap,
         step[d] \notin {"idle", "spawn"}, step'[d] \in {"leave", "closing", "done"}, d \notin pending'
  PROVE  CallerInv(d)'
<1>1. ClientTyped /\ CallerInv(d)
  BY DEF ClientInv
<1>2. OwnWire(d)'
  BY <1>1, OwnWireKept DEF CallerInv, EventsSame
<1>3. Len(chan'[d].buf) <= chan'[d].cap /\ (asks'[d] = 0 => sent'[d] = 0 /\ early'[d] = <<>>)
  BY <1>1 DEF CallerInv, EventsSame
<1>4. Fresh(d)' /\ CallOf(d)' /\ ~UnderWay(d)'
  BY DEF Fresh, CallOf, UnderWay, Unregistered, NotCalled, Through
<1> QED
  BY <1>2, <1>3, <1>4 DEF CallerInv

-----------------------------------------------------------------------------
(* Every step keeps the invariant.  First the steps of a caller.            *)

LEMMA NoLines ==
  ASSUME UNCHANGED <<out, reader>>, NEW d \in Callers
  PROVE  WireSame(d) /\ HandsSame(d)
BY DEF WireSame, HandsSame, Sends

LEMMA LookStep ==
  ASSUME ClientInv, NEW c \in Callers, Look(c)
  PROVE  ClientInv'
<1>1. ClientTyped'
  BY DEF ClientInv, ClientTyped, Look, At, CallerLabels, server_, wire, tables, chans
<1>2. ASSUME NEW d \in Callers, d # c PROVE CallerInv(d)'
  <2>1. CallOf(d)'
    BY <1>2, CallKept DEF ClientInv, CallerInv, CallSame, ClientTyped, Look, At, wire, tables, chans
  <2> QED
    BY <1>2, <2>1, NoLines, CallerKept DEF EventsSame, ClientInv, ClientTyped, Look, At, wire, tables, chans
<1>3. CallerInv(c)'
  <2>1. CallerInv(c) /\ ClientTyped /\ step'[c] \in {"call", "spawn"}
    BY DEF ClientInv, ClientTyped, Look, At
  <2>2. Fresh(c)' /\ OwnWire(c)'
    BY <2>1 DEF CallerInv, Fresh, OwnWire, Sends, Look, Unregistered, NotCalled, tables, chans, wire
  <2>3. CallOf(c)'
    BY <2>1 DEF CallerInv, CallOf, Look, NotCalled, tables, chans, wire
  <2>4. ~UnderWay(c)'
    BY <2>1 DEF UnderWay, NotCalled
  <2> QED
    BY <2>1, <2>2, <2>3, <2>4 DEF CallerInv, Look, tables, chans, wire
<1> QED
  BY <1>1, <1>2, <1>3 DEF ClientInv

LEMMA SpawnStep ==
  ASSUME ClientInv, NEW c \in Callers, Spawn(c)
  PROVE  ClientInv'
<1>1. ClientTyped'
  <2>1. born' \in Nat /\ alive' \subseteq 1 .. born' /\ alive' \subseteq Servers
    <3>1. born \in Nat /\ alive \subseteq 1 .. born /\ alive \subseteq Servers
      BY DEF ClientInv, ClientTyped
    <3>2. born' = born + 1 /\ alive' = alive \cup {born + 1} /\ born + 1 \in Servers
      BY DEF Spawn
    <3>3. 1 .. born \cup {born + 1} \subseteq 1 .. born + 1
      BY <3>1
    <3> QED
      BY <3>1, <3>2, <3>3
  <2>2. server' \in Servers /\ born' \in Servers /\ cut' \subseteq Callers
    BY DEF ClientInv, ClientTyped, Spawn, Hurt
  <2>3. early' \in [Callers -> Seq(Nat)] /\ step' \in [Callers -> CallerLabels]
    <3>1. <<>> \in Seq(Nat) /\ "call" \in CallerLabels
      BY DEF CallerLabels
    <3>2. step' \in [Callers -> CallerLabels]
      BY <3>1 DEF ClientInv, ClientTyped, Spawn, At
    <3> QED
      BY <3>1, <3>2 DEF Spawn
  <2> QED
    BY <2>1, <2>2, <2>3 DEF ClientInv, ClientTyped, Spawn, wire, chans
<1>2. ASSUME NEW d \in Callers, d # c PROVE CallerInv(d)'
  <2>1. UnderWay(d) => d \in cut'
    BY DEF UnderWay, Spawn, Hurt
  <2> QED
    BY <1>2, <2>1, CallerCut DEF ClientInv, ClientTyped, Spawn, At, wire, chans
<1>3. CallerInv(c)'
  <2>1. CallerInv(c) /\ ClientTyped /\ step'[c] = "call" /\ step[c] = "spawn" /\ early'[c] = <<>>
    BY DEF ClientInv, ClientTyped, Spawn, At
  <2>2. Fresh(c)' /\ OwnWire(c)'
    BY <2>1 DEF CallerInv, Fresh, OwnWire, Sends, Spawn, Unregistered, NotCalled, chans, wire
  <2>3. CallOf(c)'
    BY <2>1 DEF CallerInv, CallOf, Spawn, NotCalled, chans, wire
  <2>4. ~UnderWay(c)'
    BY <2>1 DEF UnderWay, NotCalled
  <2> QED
    BY <2>1, <2>2, <2>3, <2>4 DEF CallerInv, Spawn, chans, wire
<1> QED
  BY <1>1, <1>2, <1>3 DEF ClientInv

LEMMA CallStep ==
  ASSUME ClientInv, NEW c \in Callers, Call(c)
  PROVE  ClientInv'
<1>0. ClientTyped /\ CallerInv(c) /\ step[c] = "call"
  BY DEF ClientInv, Call
<1>1. ClientTyped'
  <2>1. asks' \in [Callers -> Servers \cup {0}] /\ step' \in [Callers -> CallerLabels] /\ pending' \subseteq Callers
    <3>1. "wait" \in CallerLabels /\ "leave" \in CallerLabels
      BY DEF CallerLabels
    <3>2. step \in [Callers -> CallerLabels] /\ asks \in [Callers -> Servers \cup {0}] /\ pending \subseteq Callers /\ server \in Servers \cup {0}
      BY <1>0 DEF ClientTyped
    <3>3. step' \in [Callers -> CallerLabels]
      BY <3>1, <3>2 DEF Call, At
    <3>4. asks' \in [Callers -> Servers \cup {0}]
      BY <3>2 DEF Call
    <3>5. pending' \subseteq Callers
      BY <3>2 DEF Call
    <3> QED
      BY <3>3, <3>4, <3>5
  <2> QED
    BY <1>0, <2>1 DEF ClientTyped, Call, server_, chans
<1>2. ASSUME NEW d \in Callers, d # c PROVE CallerInv(d)'
  <2>1. CallOf(d)'
    BY <1>0, <1>2, CallKept DEF ClientInv, CallerInv, CallSame, ClientTyped, Call, At, chans
  <2> QED
    BY <1>0, <1>2, <2>1, NoLines, CallerKept DEF EventsSame, ClientTyped, Call, At, chans
<1>3. CallerInv(c)'
  <2>1. CASE server \in alive
    <3>1. server \in Servers /\ server # 0 /\ asks'[c] = server /\ step'[c] = "wait" /\ pending' = pending \cup {c}
      BY <1>0, <2>1 DEF ClientTyped, Call, At
    <3>2. asks[c] = 0 /\ sent[c] = 0 /\ early[c] = <<>> /\ resp[c] = "none"
      BY <1>0 DEF CallerInv, CallOf, NotCalled
    <3>3. c \notin turns /\ chan[c].buf = <<>> /\ hold[c] = <<>> /\ got[c] = <<>> /\ \A t \in Servers : ~Sends(t, c)
      BY <1>0 DEF CallerInv, Fresh, Unregistered, NotCalled
    <3>4. \A t \in Servers : \A i \in 1 .. Len(out[t]) : ~EventOf(out[t][i], c)
      <4>1. \A t \in Servers : t # asks[c]
        BY <3>2, ClientAssumption
      <4> QED
        BY <1>0, <4>1 DEF CallerInv, OwnWire
    <3>5. OwnWire(c)' /\ Fresh(c)' /\ CallOf(c)'
      BY <3>1, <3>2, <3>3, <3>4 DEF OwnWire, Fresh, CallOf, Sends, EventOf, Call, NotCalled, chans
    <3>6. Spread(c)'
      <4>1. OnWire(out[server], c, 0, 0)
        <5>1. 0 + 1 .. 0 = {}
          OBVIOUS
        <5> QED
          BY <3>1, <3>4, <5>1 DEF OnWire
      <4>2. InHand(c) = {}
        BY <3>3 DEF InHand, Sends
      <4>3. Kept(c, 0)
        <5>1. ToSet(<<>>) = {} /\ IsInjective(<<>>) /\ 1 .. 0 = {}
          BY NoElements
        <5> QED
          BY <3>2, <3>3, <4>2, <5>1 DEF Kept, Parted
      <4>4. Kept(c, 0)' /\ OnWire(out'[asks'[c]], c, 0, 0) /\ sent'[c] = 0
        <5>1. UNCHANGED <<got, chan, hold, early, reader, out, sent>>
          BY DEF Call, chans
        <5>2. Kept(c, 0)'
          BY <4>3, <5>1 DEF Kept, InHand
        <5> QED
          BY <3>1, <3>2, <4>1, <5>1, <5>2
      <4> QED
        BY <4>4 DEF Spread, OnWire, EventOf
    <3> QED
      BY <1>0, <3>1, <3>5, <3>6 DEF CallerInv, Call, chans
  <2>2. CASE server \notin alive
    <3>1. step'[c] = "leave" /\ c \notin pending' /\ asks' = asks
      BY <1>0, <2>2 DEF CallerInv, CallOf, ClientTyped, Call, At
    <3> QED
      BY <1>0, <3>1, NoLines, CallerLeaves DEF EventsSame, Call, chans
  <2> QED
    BY <2>1, <2>2
<1> QED
  BY <1>1, <1>2, <1>3 DEF ClientInv

LEMMA CallStoppedStep ==
  ASSUME ClientInv, NEW c \in Callers, CallStopped(c)
  PROVE  ClientInv'
<1>0. ClientTyped /\ CallerInv(c) /\ step[c] = "wait"
  BY DEF ClientInv, CallStopped
<1>1. ClientTyped'
  BY <1>0 DEF ClientTyped, CallStopped, At, CallerLabels, server_, wire, chans
<1>2. ASSUME NEW d \in Callers, d # c PROVE CallerInv(d)'
  <2>1. CallOf(d)'
    BY <1>0, <1>2, CallKept DEF ClientInv, CallerInv, CallSame, ClientTyped, CallStopped, At, wire, chans
  <2> QED
    BY <1>0, <1>2, <2>1, NoLines, CallerKept DEF EventsSame, ClientTyped, CallStopped, At, wire, chans
<1>3. CallerInv(c)'
  <2>1. step'[c] = "leave" /\ c \notin pending'
    BY <1>0 DEF ClientTyped, CallStopped, At
  <2> QED
    BY <1>0, <2>1, NoLines, CallerLeaves DEF EventsSame, CallStopped, wire, chans
<1> QED
  BY <1>1, <1>2, <1>3 DEF ClientInv

LEMMA TakeResponseStep ==
  ASSUME ClientInv, NEW c \in Callers, TakeResponse(c)
  PROVE  ClientInv'
<1>0. ClientTyped /\ CallerInv(c) /\ step[c] = "wait" /\ resp[c] # "none" /\ c \notin pending
  BY DEF ClientInv, CallerInv, CallOf, TakeResponse
<1>1. ClientTyped'
  BY <1>0 DEF ClientTyped, TakeResponse, At, CallerLabels, server_, wire, tables
<1>2. ASSUME NEW d \in Callers, d # c PROVE CallerInv(d)'
  <2>1. CallOf(d)'
    BY <1>0, <1>2, CallKept DEF ClientInv, CallerInv, CallSame, ClientTyped, TakeResponse, At, wire, tables
  <2> QED
    BY <1>0, <1>2, <2>1, NoLines, CallerKept DEF EventsSame, ClientTyped, TakeResponse, At, wire, tables
<1>3. CallerInv(c)'
  <2>1. CASE resp[c] = "result"
    <3>1. step'[c] = "register" /\ asks[c] \in Servers
      <4>1. UnderWay(c)
        BY <1>0 DEF UnderWay, NotCalled, Through
      <4> QED
        BY <1>0, <2>1, <4>1, HasAsked DEF ClientTyped, TakeResponse, At
    <3>2. EventsSame(c)
      BY DEF EventsSame, TakeResponse, wire, tables
    <3>3. OwnWire(c)' /\ Fresh(c)'
      BY <1>0, <3>1 DEF CallerInv, OwnWire, Fresh, Sends, Unregistered, TakeResponse, wire, tables
    <3>4. CallOf(c)'
      BY <1>0, <3>1 DEF CallerInv, CallOf, NotCalled, TakeResponse, wire, tables
    <3>5. UnderWay(c)' /\ c \notin cut' /\ ~panicked' => Spread(c)'
      <4> SUFFICES ASSUME c \notin cut, ~panicked PROVE Spread(c)'
        BY DEF TakeResponse
      <4>1. Spread(c)
        BY <1>0 DEF CallerInv, UnderWay, NotCalled, Through
      <4> QED
        BY <1>0, <3>1, <3>2, <4>1, NoLines, SpreadKept DEF CallerInv, TakeResponse, wire
    <3> QED
      BY <1>0, <3>3, <3>4, <3>5 DEF CallerInv, TakeResponse, wire, tables
  <2>2. CASE resp[c] # "result"
    <3>1. step'[c] = "leave" /\ c \notin pending'
      BY <1>0, <2>2 DEF ClientTyped, TakeResponse, At, tables
    <3> QED
      BY <1>0, <3>1, NoLines, CallerLeaves DEF EventsSame, TakeResponse, wire, tables
  <2> QED
    BY <2>1, <2>2
<1> QED
  BY <1>1, <1>2, <1>3 DEF ClientInv

-----------------------------------------------------------------------------
(* The steps of the server and of its reader.                               *)

\* A line is written; it is an event of at most one turn.
LEMMA LineWritten ==
  ASSUME ClientTyped, NEW c \in Callers, asks[c] \in Servers, NEW l \in Lines, Written(c, l),
         NEW d \in Callers, ~EventOf(l, d)
  PROVE  WireSame(d)
BY DEF WireSame, Written, ClientTyped

LEMMA LinesKept ==
  ASSUME ClientTyped, NEW t \in Servers, NEW w \in Seq(Lines), out' = [out EXCEPT ![t] = w]
  PROVE  out' \in [Servers -> Seq(Lines)]
BY DEF ClientTyped

\* A line is read.
LEMMA LineRead ==
  ASSUME ClientTyped, NEW s \in Servers, out[s] # <<>>, out' = [out EXCEPT ![s] = Tail(@)],
         NEW d \in Callers, ~EventOf(Head(out[s]), d)
  PROVE  WireSame(d)
BY DEF WireSame, ClientTyped

LEMMA AnswerStep ==
  ASSUME ClientInv, NEW c \in Callers, Answer(c)
  PROVE  ClientInv'
<1>0. ClientTyped /\ asks[c] \in Servers
  BY DEF ClientInv, ClientTyped, Answer
<1> DEFINE l == [kind |-> "response", of |-> c, ev |-> 0]
<1>1. l \in Lines /\ \A d \in Callers : ~EventOf(l, d)
  BY DEF Lines, EventOf
<1>2. Written(c, l)
  BY DEF Answer
<1> HIDE DEF l
<1>3. ClientTyped'
  <2>1. out' \in [Servers -> Seq(Lines)]
    <3>1. out[asks[c]] \in Seq(Lines) /\ out' = [out EXCEPT ![asks[c]] = Append(out[asks[c]], l)]
      BY <1>0, <1>2 DEF ClientTyped, Written
    <3>2. Append(out[asks[c]], l) \in Seq(Lines)
      BY <1>1, <3>1
    <3> QED
      BY <1>0, <3>1, <3>2, LinesKept
  <2> QED
    BY <1>0, <2>1 DEF ClientTyped, Answer, server_, tables, chans, steps
<1>4. ASSUME NEW d \in Callers PROVE CallerInv(d)'
  <2>1. WireSame(d)
    BY <1>0, <1>1, <1>2, LineWritten
  <2>2. HandsSame(d)
    BY DEF HandsSame, Sends, Answer
  <2>3. CallOf(d)'
    BY CallKept DEF ClientInv, CallerInv, CallSame, Answer, tables, chans, steps
  <2> QED
    BY <2>1, <2>2, <2>3, CallerKept DEF EventsSame, Answer, tables, chans, steps
<1> QED
  BY <1>3, <1>4 DEF ClientInv

LEMMA EmitStep ==
  ASSUME ClientInv, NEW c \in Callers, Emit(c)
  PROVE  ClientInv'
<1>0. ClientTyped /\ CallerInv(c) /\ asks[c] \in Servers /\ asks[c] # 0 /\ sent[c] \in Nat /\ out[asks[c]] \in Seq(Lines)
  BY ClientAssumption DEF ClientInv, ClientTyped, Emit
<1> DEFINE l == [kind |-> "event", of |-> c, ev |-> sent[c] + 1]
<1>1. l \in Lines /\ l.ev = sent[c] + 1 /\ \A d \in Callers : EventOf(l, d) <=> d = c
  BY <1>0 DEF Lines, EventOf
<1>2. Written(c, l) /\ sent' = [sent EXCEPT ![c] = @ + 1]
  BY DEF Emit
<1> HIDE DEF l
<1>3. ClientTyped'
  <2>1. out' \in [Servers -> Seq(Lines)]
    <3>1. out[asks[c]] \in Seq(Lines) /\ out' = [out EXCEPT ![asks[c]] = Append(out[asks[c]], l)]
      BY <1>0, <1>2 DEF ClientTyped, Written
    <3>2. Append(out[asks[c]], l) \in Seq(Lines)
      BY <1>1, <3>1
    <3> QED
      BY <1>0, <3>1, <3>2, LinesKept
  <2>2. sent' \in [Callers -> Nat]
    BY <1>0, <1>2 DEF ClientTyped
  <2> QED
    BY <1>0, <2>1, <2>2 DEF ClientTyped, Emit, server_, tables, chans, steps
<1>4. ASSUME NEW d \in Callers PROVE HandsSame(d) /\ CallOf(d)'
  <2>1. CallOf(d)'
    BY CallKept DEF ClientInv, CallerInv, CallSame, Emit, tables, chans, steps
  <2> QED
    BY <2>1 DEF HandsSame, Sends, Emit
<1>5. ASSUME NEW d \in Callers, d # c PROVE CallerInv(d)'
  <2>1. WireSame(d)
    BY <1>0, <1>1, <1>2, <1>5, LineWritten
  <2> QED
    BY <1>0, <1>2, <1>4, <1>5, <2>1, CallerKept DEF ClientTyped, EventsSame, Emit, tables, chans, steps
<1>6. CallerInv(c)'
  <2>1. OwnWire(c)'
    BY <1>0, <1>2 DEF CallerInv, OwnWire, Sends, EventOf, Written, Emit
  <2>2. Fresh(c)'
    BY <1>0 DEF CallerInv, Fresh, Sends, Emit, tables, chans, steps
  <2>3. UnderWay(c)' /\ c \notin cut' /\ ~panicked' => Spread(c)'
    <3> SUFFICES ASSUME UnderWay(c), c \notin cut, ~panicked PROVE Spread(c)'
      BY DEF UnderWay, Emit, steps
    <3>1. PICK r \in 0 .. sent[c] : OnWire(out[asks[c]], c, r, sent[c]) /\ Kept(c, r)
      BY <1>0 DEF CallerInv, Spread
    <3>2. OnWire(Append(out[asks[c]], l), c, r, sent[c] + 1)
      BY <1>0, <1>1, <3>1, WireGrows
    <3>3. out'[asks'[c]] = Append(out[asks[c]], l) /\ sent'[c] = sent[c] + 1
      BY <1>0, <1>2 DEF Emit, Written, ClientTyped
    <3>4. Kept(c, r)'
      BY <3>1 DEF Kept, InHand, Emit, tables, chans, steps
    <3>5. r \in 0 .. sent[c] + 1
      BY <1>0
    <3> QED
      BY <3>2, <3>3, <3>4, <3>5 DEF Spread, OnWire, EventOf
  <2>4. asks'[c] # 0 /\ Len(chan'[c].buf) <= chan'[c].cap
    BY <1>0 DEF CallerInv, Emit, chans
  <2> QED
    BY <1>4, <2>1, <2>2, <2>3, <2>4 DEF CallerInv
<1> QED
  BY <1>3, <1>5, <1>6 DEF ClientInv

LEMMA ServerDiesStep ==
  ASSUME ClientInv, NEW s \in Servers, ServerDies(s)
  PROVE  ClientInv'
<1>1. ClientTyped'
  BY DEF ClientInv, ClientTyped, ServerDies, wire, tables, chans, steps
<1>2. ASSUME NEW d \in Callers PROVE CallerInv(d)'
  <2>1. CallOf(d)'
    BY CallKept DEF ClientInv, CallerInv, CallSame, ServerDies, wire, tables, chans, steps
  <2> QED
    BY <2>1, NoLines, CallerKept DEF EventsSame, ServerDies, wire, tables, chans, steps
<1> QED
  BY <1>1, <1>2 DEF ClientInv

LEMMA deliverResponseStep ==
  ASSUME ClientInv, NEW s \in Servers, deliverResponse(s)
  PROVE  ClientInv'
<1>0. /\ ClientTyped /\ out[s] # <<>> /\ out' = [out EXCEPT ![s] = Tail(@)] /\ out[s] \in Seq(Lines)
      /\ Line(s) \in Lines /\ Line(s).kind = "response" /\ reader' = reader
  <2>1. ClientTyped /\ out[s] \in Seq(Lines)
    BY DEF ClientInv, ClientTyped
  <2>2. out[s] # <<>> /\ out' = [out EXCEPT ![s] = Tail(@)] /\ Line(s).kind = "response" /\ reader' = reader
    BY DEF deliverResponse, Reads
  <2>3. Line(s) \in Lines
    BY <2>1, <2>2 DEF Line
  <2> QED
    BY <2>1, <2>2, <2>3
<1>1. PICK c \in Callers : c = Line(s).of
  BY <1>0 DEF Lines
<1>2. pending' = pending \ {c} /\ resp' = IF c \in pending THEN [resp EXCEPT ![c] = "result"] ELSE resp
  BY <1>1 DEF deliverResponse
<1>3. ClientTyped'
  <2>1. out' \in [Servers -> Seq(Lines)]
    <3>1. Tail(out[s]) \in Seq(Lines) /\ out' = [out EXCEPT ![s] = Tail(out[s])]
      BY <1>0
    <3> QED
      BY <1>0, <3>1, LinesKept
  <2>2. resp' \in [Callers -> {"none", "result", "closed"}]
    BY <1>0, <1>2 DEF ClientTyped
  <2> QED
    BY <1>0, <1>2, <2>1, <2>2 DEF ClientTyped, deliverResponse, server_, steps
<1>4. ASSUME NEW d \in Callers PROVE CallerInv(d)'
  <2>1. WireSame(d) /\ HandsSame(d)
    BY <1>0, LineRead DEF EventOf, Line, HandsSame, Sends
  <2>2. CallOf(d)'
    <3>1. CallOf(d)
      BY DEF ClientInv, CallerInv
    <3>2. CASE d = c /\ c \in pending
      <4>1. resp'[d] = "result" /\ d \notin pending'
        BY <1>0, <1>2, <3>2 DEF ClientTyped
      <4> QED
        BY <3>1, <3>2, <4>1 DEF CallOf, deliverResponse, steps, NotCalled
    <3>3. CASE ~(d = c /\ c \in pending)
      <4>1. resp'[d] = resp[d] /\ (d \in pending' <=> d \in pending)
        BY <1>0, <1>2, <3>3 DEF ClientTyped
      <4> QED
        BY <3>1, <4>1, CallKept DEF CallSame, deliverResponse, steps
    <3> QED
      BY <3>2, <3>3
  <2> QED
    BY <2>1, <2>2, CallerKept DEF EventsSame, deliverResponse, steps
<1> QED
  BY <1>3, <1>4 DEF ClientInv

LEMMA ReaderCloseStep ==
  ASSUME ClientInv, NEW s \in Servers, ReaderClose(s)
  PROVE  ClientInv'
<1>0. ClientTyped /\ reader' = [reader EXCEPT ![s] = Scan] /\ reader[s].do = "close" /\ reader[s].of \in Callers
  BY DEF ClientInv, ClientTyped, ReaderClose
<1>1. ClientTyped'
  <2>1. Scan \in [do : {"scan", "send", "close", "over", "deaf"}, of : Callers \cup {"none"}, ev : Nat] /\ Scan.do = "scan"
    BY DEF Scan
  <2>2. reader' \in [Servers -> [do : {"scan", "send", "close", "over", "deaf"}, of : Callers \cup {"none"}, ev : Nat]]
    BY <1>0, <2>1 DEF ClientTyped
  <2>3. \A t \in Servers : reader'[t].do \in {"send", "close"} => reader'[t].of \in Callers
    BY <1>0, <2>1 DEF ClientTyped
  <2> QED
    BY <1>0, <2>2, <2>3 DEF ClientTyped, ReaderClose, server_, wire, tables, steps
<1>2. ASSUME NEW d \in Callers PROVE CallerInv(d)'
  <2>1. WireSame(d)
    BY DEF WireSame, ReaderClose, wire
  <2>2. HandsSame(d)
    BY <1>0 DEF HandsSame, Sends, Scan, ClientTyped
  <2>3. CallOf(d)'
    BY CallKept DEF ClientInv, CallerInv, CallSame, ReaderClose, wire, tables, steps
  <2> QED
    BY <2>1, <2>2, <2>3, CallerKept DEF EventsSame, ReaderClose, wire, tables, steps
<1> QED
  BY <1>1, <1>2 DEF ClientInv

LEMMA failPendingStep ==
  ASSUME ClientInv, NEW s \in Servers, failPending(s)
  PROVE  ClientInv'
<1>0. ClientTyped /\ reader[s] = Scan
  BY DEF ClientInv, failPending
<1>e. PICK label \in {"over", "deaf"} : reader' = [reader EXCEPT ![s] = [Scan EXCEPT !.do = label]]
  BY DEF failPending
<1> DEFINE over == [Scan EXCEPT !.do = label]
<1>1. reader' = [reader EXCEPT ![s] = over] /\ over \in [do : {"scan", "send", "close", "over", "deaf"}, of : Callers \cup {"none"}, ev : Nat] /\ over.do = label /\ Scan.do = "scan"
  BY <1>e DEF Scan
<1> HIDE DEF over
<1>2. ClientTyped'
  <2>2. reader' \in [Servers -> [do : {"scan", "send", "close", "over", "deaf"}, of : Callers \cup {"none"}, ev : Nat]]
    BY <1>0, <1>1 DEF ClientTyped
  <2>3. \A t \in Servers : reader'[t].do \in {"send", "close"} => reader'[t].of \in Callers
    BY <1>0, <1>1 DEF ClientTyped
  <2>4. resp' \in [Callers -> {"none", "result", "closed"}] /\ pending' \subseteq Callers
    BY <1>0 DEF ClientTyped, failPending
  <2> QED
    BY <1>0, <2>2, <2>3, <2>4 DEF ClientTyped, failPending, server_, wire, steps
<1>3. ASSUME NEW d \in Callers PROVE CallerInv(d)'
  <2>1. WireSame(d)
    BY DEF WireSame, failPending, wire
  <2>2. HandsSame(d)
    BY <1>0, <1>1 DEF HandsSame, Sends, ClientTyped
  <2>3. CallOf(d)'
    <3>1. CallOf(d)
      BY DEF ClientInv, CallerInv
    <3>2. resp'[d] = IF d \in pending THEN "closed" ELSE resp[d]
      BY DEF failPending
    <3> QED
      BY <3>1, <3>2 DEF CallOf, failPending, wire, steps, NotCalled
  <2> QED
    BY <2>1, <2>2, <2>3, CallerKept DEF EventsSame, failPending, wire, steps
<1> QED
  BY <1>2, <1>3 DEF ClientInv

ReaderStates == [do : {"scan", "send", "close", "over", "deaf"}, of : Callers \cup {"none"}, ev : Nat]

\* A reader goes on: the other readers' hands are what they were.
LEMMA ReaderTyped ==
  ASSUME ClientTyped, NEW s \in Servers, NEW x \in ReaderStates, x.do \in {"send", "close"} => x.of \in Callers,
         reader' = [reader EXCEPT ![s] = x]
  PROVE  /\ reader' \in [Servers -> ReaderStates]
         /\ \A t \in Servers : reader'[t].do \in {"send", "close"} => reader'[t].of \in Callers
         /\ \A d \in Callers : (x.do = "send" => x.of # d) /\ ~Sends(s, d) => HandsSame(d)
<1>1. \A t \in Servers : reader'[t] = IF t = s THEN x ELSE reader[t]
  BY DEF ClientTyped
<1>2. reader' \in [Servers -> ReaderStates]
  BY DEF ClientTyped, ReaderStates
<1>3. \A t \in Servers : reader'[t].do \in {"send", "close"} => reader'[t].of \in Callers
  BY <1>1 DEF ClientTyped
<1>4. ASSUME NEW d \in Callers, x.do = "send" => x.of # d, ~Sends(s, d) PROVE HandsSame(d)
  BY <1>1, <1>4 DEF HandsSame, Sends
<1> QED
  BY <1>2, <1>3, <1>4

LEMMA handleNotificationStep ==
  ASSUME ClientInv, NEW s \in Servers, handleNotification(s)
  PROVE  ClientInv'
<1>0. /\ ClientTyped /\ out[s] # <<>> /\ out' = [out EXCEPT ![s] = Tail(@)] /\ out[s] \in Seq(Lines)
      /\ Line(s) \in Lines /\ Line(s).kind = "event" /\ reader[s] = Scan /\ s # 0
  <2>1. ClientTyped /\ out[s] \in Seq(Lines)
    BY DEF ClientInv, ClientTyped
  <2>2. out[s] # <<>> /\ out' = [out EXCEPT ![s] = Tail(@)] /\ Line(s).kind = "event" /\ reader[s] = Scan
    BY DEF handleNotification, Reads
  <2>3. Line(s) \in Lines
    BY <2>1, <2>2 DEF Line
  <2> QED
    BY <2>1, <2>2, <2>3, ClientAssumption
<1>1. PICK c \in Callers : c = Line(s).of
  BY <1>0 DEF Lines
<1> DEFINE v == Line(s).ev
           last == v = LastEvent
           x == [do |-> "send", of |-> c, ev |-> v]
<1>2. EventOf(Head(out[s]), c) /\ v \in Nat /\ \A d \in Callers : d # c => ~EventOf(Head(out[s]), d)
  BY <1>0, <1>1 DEF EventOf, Line, Lines
<1>3. CallerInv(c) /\ asks[c] = s
  <2>1. CallerInv(c)
    BY DEF ClientInv
  <2>2. 1 \in 1 .. Len(out[s]) /\ out[s][1] = Head(out[s])
    BY <1>0
  <2>3. asks[c] = s
    BY <1>2, <2>1, <2>2 DEF CallerInv, OwnWire
  <2> QED
    BY <2>1, <2>3
<1>4. \/ /\ c \in turns /\ turns' \subseteq turns /\ reader' = [reader EXCEPT ![s] = x] /\ UNCHANGED <<early, earlyClosed>>
      \/ /\ c \notin turns /\ early' = [early EXCEPT ![c] = Append(@, v)] /\ earlyClosed' \subseteq earlyClosed \cup {c}
         /\ UNCHANGED <<turns, reader>>
  BY <1>1 DEF handleNotification
<1>5. x \in ReaderStates /\ x.do = "send" /\ x.of = c /\ x.ev = v /\ (\A d \in Callers : ~Sends(s, d))
  BY <1>0, <1>2 DEF ReaderStates, Sends, Scan
<1> HIDE DEF x, v
<1>6. out'[s] = Tail(out[s]) /\ (\A t \in Servers : t # s => out'[t] = out[t]) /\ out' \in [Servers -> Seq(Lines)]
  <2>1. Tail(out[s]) \in Seq(Lines) /\ out' = [out EXCEPT ![s] = Tail(out[s])]
    BY <1>0
  <2> QED
    BY <1>0, <2>1, LinesKept DEF ClientTyped
<1>7. early' \in [Callers -> Seq(Nat)] /\ early[c] \in Seq(Nat) /\ \A d \in Callers : d # c => early'[d] = early[d]
  <2>1. early[c] \in Seq(Nat) /\ Append(early[c], v) \in Seq(Nat)
    BY <1>0, <1>2 DEF ClientTyped
  <2>2. early \in [Callers -> Seq(Nat)]
    BY <1>0 DEF ClientTyped
  <2>3. CASE early' = early
    BY <2>1, <2>2, <2>3
  <2>4. CASE early' = [early EXCEPT ![c] = Append(@, v)]
    BY <2>1, <2>2, <2>4
  <2> QED
    BY <1>4, <2>3, <2>4
<1>8. reader' \in [Servers -> ReaderStates] /\ (\A t \in Servers : reader'[t].do \in {"send", "close"} => reader'[t].of \in Callers)
      /\ \A d \in Callers : d # c => HandsSame(d)
  <2>1. CASE reader' = reader
    BY <1>0, <2>1 DEF ClientTyped, HandsSame, Sends, ReaderStates
  <2>2. CASE reader' = [reader EXCEPT ![s] = x]
    BY <1>0, <1>5, <2>2, ReaderTyped
  <2> QED
    BY <1>4, <2>1, <2>2
<1>9. ClientTyped'
  <2>1. turns' \subseteq Callers /\ earlyClosed' \subseteq Callers
    BY <1>0, <1>4 DEF ClientTyped
  <2> QED
    BY <1>0, <1>6, <1>7, <1>8, <2>1 DEF ClientTyped, ReaderStates, handleNotification, server_, chans, steps
<1>10. ASSUME NEW d \in Callers PROVE CallOf(d)'
  BY CallKept DEF ClientInv, CallerInv, CallSame, handleNotification, chans, steps
<1>11. ASSUME NEW d \in Callers, d # c PROVE CallerInv(d)'
  <2>1. WireSame(d)
    BY <1>0, <1>2, <1>11, LineRead
  <2>2. d \in turns' => d \in turns
    BY <1>4
  <2> QED
    BY <1>7, <1>8, <1>10, <1>11, <2>1, <2>2, CallerKept DEF EventsSame, handleNotification, chans, steps
<1>12. CallerInv(c)'
  <2>1. OwnWire(c)'
    <3>1. ASSUME NEW t \in Servers, t # s
          PROVE  ~Sends(t, c)' /\ \A i \in 1 .. Len(out'[t]) : ~EventOf(out'[t][i], c)
      <4>1. ~Sends(t, c) /\ \A i \in 1 .. Len(out[t]) : ~EventOf(out[t][i], c)
        BY <1>3, <3>1 DEF CallerInv, OwnWire
      <4>2. reader'[t] = reader[t]
        BY <1>0, <1>4, <3>1 DEF ClientTyped
      <4> QED
        BY <1>6, <3>1, <4>1, <4>2 DEF Sends
    <3>2. asks'[c] = s
      BY <1>3 DEF handleNotification
    <3> QED
      BY <3>1, <3>2 DEF OwnWire, Sends, EventOf
  <2>2. Fresh(c)'
    <3>1. CASE c \in turns
      <4>1. step[c] \notin Unregistered
        BY <1>3, <3>1 DEF CallerInv, Fresh
      <4> QED
        BY <4>1 DEF Fresh, handleNotification, steps
    <3>2. CASE c \notin turns
      BY <1>3, <1>4, <3>2 DEF CallerInv, Fresh, Sends, handleNotification, chans, steps
    <3> QED
      BY <3>1, <3>2
  <2>3. UnderWay(c)' /\ c \notin cut' /\ ~panicked' => Spread(c)'
    <3> SUFFICES ASSUME UnderWay(c), c \notin cut, ~panicked PROVE Spread(c)'
      BY DEF UnderWay, handleNotification, steps
    <3>1. PICK r \in 0 .. sent[c] : OnWire(out[s], c, r, sent[c]) /\ Kept(c, r)
      BY <1>3 DEF CallerInv, Spread
    <3>2. v = r + 1 /\ r + 1 \in 0 .. sent[c] /\ OnWire(Tail(out[s]), c, r + 1, sent[c])
      <4>1. sent[c] \in Nat
        BY <1>0 DEF ClientTyped
      <4> QED
        BY <1>0, <1>2, <3>1, <4>1, WireHead DEF v, Line
    <3>3. InHand(c) = {}
      BY <1>3, <1>5 DEF CallerInv, OwnWire, InHand, Sends
    <3>4. 1 .. r + 1 = (1 .. r) \cup {v} /\ v \notin 1 .. r
      BY <3>2
    <3>5. Kept(c, r + 1)'
      <4>1. UNCHANGED <<got, hold, chan>>
        BY DEF handleNotification, chans, steps
      <4>2. CASE c \in turns
        <5>1. InHand(c)' = {v}
          <6>1. reader'[s] = x /\ \A t \in Servers : t # s => reader'[t] = reader[t]
            BY <1>0, <1>4, <4>2 DEF ClientTyped
          <6> QED
            BY <1>3, <1>5, <6>1 DEF CallerInv, OwnWire, InHand, Sends
        <5>2. early' = early
          BY <1>4, <4>2
        <5> QED
          BY <3>1, <3>3, <3>4, <4>1, <5>1, <5>2 DEF Kept, Parted
      <4>3. CASE c \notin turns
        <5>1. InHand(c)' = {}
          <6>1. reader' = reader
            BY <1>4, <4>3
          <6> QED
            BY <3>3, <6>1 DEF InHand
        <5>2. early'[c] = Append(early[c], v)
          BY <1>0, <1>4, <4>3 DEF ClientTyped
        <5>3. v \notin ToSet(early[c]) /\ IsInjective(early[c])
          BY <3>1, <3>4 DEF Kept
        <5>4. IsInjective(early'[c]) /\ ToSet(early'[c]) = ToSet(early[c]) \cup {v}
          BY <1>2, <1>7, <5>2, <5>3, AppendNew
        <5> QED
          BY <3>1, <3>3, <3>4, <4>1, <5>1, <5>4 DEF Kept, Parted
      <4> QED
        BY <4>2, <4>3
    <3>6. out'[asks'[c]] = Tail(out[s]) /\ sent'[c] = sent[c]
      BY <1>3, <1>6 DEF handleNotification
    <3> QED
      BY <3>2, <3>5, <3>6 DEF Spread, OnWire, EventOf
  <2>4. Len(chan'[c].buf) <= chan'[c].cap /\ asks'[c] # 0
    BY <1>0, <1>3 DEF CallerInv, handleNotification, chans
  <2> QED
    BY <1>10, <2>1, <2>2, <2>3, <2>4 DEF CallerInv
<1> QED
  BY <1>9, <1>11, <1>12 DEF ClientInv

\* What a send does to a channel of S: nothing when it panics, one more event otherwise.
LEMMA SentTo ==
  ASSUME ClientTyped, NEW c \in Callers, NEW v \in Nat, Sent(c, v, TRUE), ~panicked
  PROVE  /\ chan' \in [Callers -> [buf : Seq(Nat), cap : Nat]] /\ panicked' \in BOOLEAN
         /\ \A d \in Callers : d # c => chan'[d] = chan[d]
         /\ chan'[c].cap = chan[c].cap
         /\ Len(chan[c].buf) <= chan[c].cap => Len(chan'[c].buf) <= chan'[c].cap
         /\ ~panicked' => chan'[c].buf = Append(chan[c].buf, v)
<1>1. chan \in [Callers -> [buf : Seq(Nat), cap : Nat]] /\ panicked \in BOOLEAN
  BY DEF ClientTyped
<1>2. CASE panicked' = TRUE /\ UNCHANGED chan
  BY <1>1, <1>2
<1>3. CASE Len(chan[c].buf) < chan[c].cap /\ chan' = [chan EXCEPT ![c].buf = Append(@, v)] /\ UNCHANGED panicked
  <2>1. chan[c].buf \in Seq(Nat) /\ chan[c].cap \in Nat /\ Len(chan[c].buf) \in Nat
    BY <1>1
  <2>2. Append(chan[c].buf, v) \in Seq(Nat) /\ Len(Append(chan[c].buf, v)) = Len(chan[c].buf) + 1
    BY <2>1
  <2>3. chan'[c].buf = Append(chan[c].buf, v) /\ chan'[c].cap = chan[c].cap /\ \A d \in Callers : d # c => chan'[d] = chan[d]
    BY <1>1, <1>3
  <2>4. chan' \in [Callers -> [buf : Seq(Nat), cap : Nat]]
    BY <1>1, <1>3, <2>2
  <2> QED
    BY <1>1, <1>3, <2>1, <2>2, <2>3, <2>4
<1> QED
  BY <1>2, <1>3 DEF Sent

LEMMA ReaderSendStep ==
  ASSUME ClientInv, NEW s \in Servers, ReaderSend(s), ~panicked
  PROVE  ClientInv'
<1>a. ClientTyped /\ reader[s].of \in Callers /\ reader[s].ev \in Nat /\ reader[s].do = "send"
  BY DEF ClientInv, ClientTyped, ReaderSend
<1>b. PICK c \in Callers : c = reader[s].of
  BY <1>a
<1>v. PICK v \in Nat : v = reader[s].ev
  BY <1>a
<1> DEFINE x == IF v = LastEvent THEN [reader[s] EXCEPT !.do = "close"] ELSE Scan
<1>0. ClientTyped /\ Sends(s, c) /\ CallerInv(c)
  BY <1>a, <1>b DEF ClientInv, Sends
<1>1. asks[c] = s /\ s # 0 /\ step[c] \notin Unregistered
  BY <1>0, ClientAssumption DEF CallerInv, OwnWire, Fresh
<1>2. Sent(c, v, TRUE) /\ reader' = [reader EXCEPT ![s] = x]
  BY <1>b, <1>v DEF ReaderSend
<1>3. x \in ReaderStates /\ x.do # "send" /\ (x.do = "close" => x.of = c)
  <2>1. reader[s] \in ReaderStates
    BY <1>0 DEF ClientTyped, ReaderStates
  <2> QED
    BY <1>0, <1>b, <2>1 DEF ReaderStates, Scan
<1>4. \A d \in Callers : d # c => ~Sends(s, d)
  BY <1>b DEF Sends
<1> HIDE DEF x
<1>5. /\ chan' \in [Callers -> [buf : Seq(Nat), cap : Nat]] /\ panicked' \in BOOLEAN
      /\ \A d \in Callers : d # c => chan'[d] = chan[d]
      /\ chan'[c].cap = chan[c].cap /\ Len(chan'[c].buf) <= chan'[c].cap
      /\ ~panicked' => chan'[c].buf = Append(chan[c].buf, v)
  BY <1>0, <1>2, SentTo DEF CallerInv
<1>6. /\ reader' \in [Servers -> ReaderStates] /\ (\A t \in Servers : reader'[t].do \in {"send", "close"} => reader'[t].of \in Callers)
      /\ \A d \in Callers : d # c => HandsSame(d)
  <2>1. x.do \in {"send", "close"} => x.of \in Callers
    BY <1>0, <1>3
  <2> QED
    BY <1>0, <1>2, <1>3, <1>4, <2>1, ReaderTyped
<1>7. ClientTyped'
  <2>1. overtaken' \subseteq Callers
    BY <1>a DEF ClientTyped, ReaderSend
  <2> QED
    BY <1>0, <1>5, <1>6, <2>1 DEF ClientTyped, ReaderStates, ReaderSend, server_, wire, tables, steps
<1>8. ASSUME NEW d \in Callers PROVE CallOf(d)' /\ WireSame(d)
  BY CallKept DEF ClientInv, CallerInv, CallSame, WireSame, ReaderSend, wire, tables, steps
<1>9. ASSUME NEW d \in Callers, d # c PROVE CallerInv(d)'
  <2>1. chan'[d] = chan[d] /\ HandsSame(d)
    BY <1>5, <1>6, <1>9
  <2> QED
    BY <1>8, <2>1, CallerKept DEF EventsSame, ReaderSend, wire, tables, steps
<1>10. \A t \in Servers : ~Sends(t, c)'
  <2>1. reader'[s] = x /\ \A t \in Servers : t # s => reader'[t] = reader[t]
    BY <1>0, <1>2 DEF ClientTyped
  <2> QED
    BY <1>0, <1>1, <1>3, <2>1 DEF CallerInv, OwnWire, Sends
<1>11. CallerInv(c)'
  <2>1. OwnWire(c)'
    BY <1>0, <1>10 DEF CallerInv, OwnWire, Sends, EventOf, ReaderSend, wire
  <2>2. Fresh(c)'
    BY <1>1 DEF Fresh, ReaderSend, steps
  <2>3. UnderWay(c)' /\ c \notin cut' /\ ~panicked' => Spread(c)'
    <3> SUFFICES ASSUME UnderWay(c), c \notin cut, ~panicked' PROVE Spread(c)'
      BY DEF UnderWay, ReaderSend, steps
    <3>1. PICK r \in 0 .. sent[c] : OnWire(out[asks[c]], c, r, sent[c]) /\ Kept(c, r)
      BY <1>0 DEF CallerInv, Spread
    <3>2. InHand(c) = {v}
      BY <1>0, <1>1, <1>v, OneHand DEF CallerInv
    <3>3. InHand(c)' = {}
      BY <1>10 DEF InHand, Sends
    <3>4. chan'[c].buf = Append(chan[c].buf, v) /\ chan[c].buf \in Seq(Nat)
      BY <1>0, <1>5 DEF ClientTyped
    <3>5. IsInjective(chan'[c].buf) /\ ToSet(chan'[c].buf) = ToSet(chan[c].buf) \cup {v}
      <4>1. IsInjective(chan[c].buf) /\ v \notin ToSet(chan[c].buf)
        BY <3>1, <3>2 DEF Kept, Parted
      <4> QED
        BY <1>0, <3>4, <4>1, AppendNew
    <3>6. UNCHANGED <<got, hold, early, out, asks, sent>>
      BY DEF ReaderSend, wire, tables, steps
    <3>7. Kept(c, r)'
      BY <3>1, <3>2, <3>3, <3>5, <3>6 DEF Kept, Parted
    <3> QED
      BY <3>1, <3>6, <3>7, SpreadMoved
  <2>4. asks'[c] # 0
    BY <1>1 DEF ReaderSend, wire
  <2> QED
    BY <1>0, <1>5, <1>8, <2>1, <2>2, <2>3, <2>4 DEF CallerInv
<1> QED
  BY <1>7, <1>9, <1>11 DEF ClientInv

-----------------------------------------------------------------------------
(* The steps of a turn.                                                     *)

\* Whose call and turn a caller's step is not about.
LEMMA OthersUntouched ==
  ASSUME ClientInv, NEW c \in Callers, NEW d \in Callers, d # c, UNCHANGED <<wire, reader, resp>>, EventsSame(d),
         chan'[d].cap = chan[d].cap, step'[d] = step[d], d \in pending' <=> d \in pending, d \in turns' => d \in turns,
         d \in cut => d \in cut', panicked => panicked'
  PROVE  CallerInv(d)'
<1>1. CallOf(d)'
  BY CallKept DEF ClientInv, CallerInv, CallSame, EventsSame
<1>2. WireSame(d) /\ HandsSame(d)
  BY NoLines DEF wire
<1> QED
  BY <1>1, <1>2, CallerKept

LEMMA registerTurnEventsStep ==
  ASSUME ClientInv, NEW c \in Callers, registerTurnEvents(c)
  PROVE  ClientInv'
<1>0. ClientTyped /\ CallerInv(c) /\ step[c] = "register"
  BY DEF ClientInv, registerTurnEvents
<1> DEFINE k == IF Len(early[c]) + 1 > Capacity THEN Len(early[c]) + 1 ELSE Capacity
           l == IF c \in earlyClosed THEN "push and close" ELSE "push"
<1>1. k \in Nat /\ 0 <= k /\ l \in {"push", "push and close"} /\ early[c] \in Seq(Nat) /\ <<>> \in Seq(Nat)
  <2>1. early[c] \in Seq(Nat)
    BY <1>0 DEF ClientTyped
  <2> QED
    BY <2>1, ClientAssumption
<1>2. hold' = [hold EXCEPT ![c] = early[c]] /\ early' = [early EXCEPT ![c] = <<>>] /\ chan' = [chan EXCEPT ![c].cap = k]
      /\ step' = [step EXCEPT ![c] = l]
  BY DEF registerTurnEvents, At
<1> HIDE DEF k, l
<1>3. /\ hold' \in [Callers -> Seq(Nat)] /\ early' \in [Callers -> Seq(Nat)] /\ chan' \in [Callers -> [buf : Seq(Nat), cap : Nat]]
      /\ step' \in [Callers -> CallerLabels] /\ hold'[c] = early[c] /\ early'[c] = <<>> /\ chan'[c].cap = k /\ chan'[c].buf = chan[c].buf
      /\ step'[c] = l
      /\ \A d \in Callers : d # c => hold'[d] = hold[d] /\ early'[d] = early[d] /\ chan'[d] = chan[d] /\ step'[d] = step[d]
  <2>1. hold \in [Callers -> Seq(Nat)] /\ early \in [Callers -> Seq(Nat)] /\ chan \in [Callers -> [buf : Seq(Nat), cap : Nat]]
        /\ step \in [Callers -> CallerLabels]
    BY <1>0 DEF ClientTyped
  <2>2. l \in CallerLabels
    BY <1>1 DEF CallerLabels
  <2>3. hold' \in [Callers -> Seq(Nat)] /\ early' \in [Callers -> Seq(Nat)] /\ step' \in [Callers -> CallerLabels]
    BY <1>1, <1>2, <2>1, <2>2
  <2>4. chan' \in [Callers -> [buf : Seq(Nat), cap : Nat]]
    BY <1>1, <1>2, <2>1
  <2>5. hold'[c] = early[c] /\ early'[c] = <<>> /\ step'[c] = l
        /\ \A d \in Callers : d # c => hold'[d] = hold[d] /\ early'[d] = early[d] /\ step'[d] = step[d]
    BY <1>2, <2>1
  <2>6. chan'[c].cap = k /\ chan'[c].buf = chan[c].buf /\ \A d \in Callers : d # c => chan'[d] = chan[d]
    BY <1>2, <2>1
  <2> QED
    BY <2>3, <2>4, <2>5, <2>6
<1>4. turns' \subseteq turns \cup {c} /\ earlyClosed' \subseteq earlyClosed
  BY DEF registerTurnEvents
<1>5. ClientTyped'
  <2>1. turns' \subseteq Callers /\ earlyClosed' \subseteq Callers
    BY <1>0, <1>4 DEF ClientTyped
  <2> QED
    BY <1>0, <1>3, <2>1 DEF ClientTyped, registerTurnEvents, server_, wire
<1>6. ASSUME NEW d \in Callers, d # c PROVE CallerInv(d)'
  <2>1. EventsSame(d) /\ chan'[d].cap = chan[d].cap /\ step'[d] = step[d]
    BY <1>3, <1>6 DEF EventsSame, registerTurnEvents, wire
  <2> QED
    BY <1>4, <1>6, <2>1, OthersUntouched DEF registerTurnEvents
<1>7. CallerInv(c)'
  <2>1. c \notin turns /\ chan[c].buf = <<>> /\ hold[c] = <<>> /\ got[c] = <<>> /\ c \notin pending
    BY <1>0 DEF CallerInv, Fresh, CallOf, Unregistered
  <2>2. OwnWire(c)'
    BY <1>0 DEF CallerInv, OwnWire, Sends, EventOf, registerTurnEvents, wire
  <2>3. Fresh(c)' /\ CallOf(c)'
    BY <1>0, <1>1, <1>3, <2>1 DEF CallerInv, Fresh, CallOf, Unregistered, NotCalled, registerTurnEvents, wire
  <2>4. UnderWay(c)' /\ c \notin cut' /\ ~panicked' => Spread(c)'
    <3> SUFFICES ASSUME c \notin cut, ~panicked PROVE Spread(c)'
      BY DEF registerTurnEvents
    <3>1. UnderWay(c)
      BY <1>0 DEF UnderWay, NotCalled, Through
    <3>2. PICK r \in 0 .. sent[c] : OnWire(out[asks[c]], c, r, sent[c]) /\ Kept(c, r)
      BY <1>0, <3>1 DEF CallerInv, Spread
    <3>3. UNCHANGED <<got, out, asks, sent, reader>>
      BY DEF registerTurnEvents, wire
    <3>4. Kept(c, r)'
      <4>1. InHand(c)' = InHand(c)
        BY <3>3 DEF InHand
      <4> QED
        BY <1>3, <2>1, <3>2, <3>3, <4>1 DEF Kept, Parted
    <3> QED
      BY <3>2, <3>3, <3>4, SpreadMoved
  <2>5. Len(chan'[c].buf) <= chan'[c].cap
    <3>1. Len(chan'[c].buf) = 0
      BY <1>3, <2>1
    <3>2. chan'[c].cap = k
      BY <1>3
    <3>3. 0 <= k
      BY <1>1
    <3> QED
      BY <3>1, <3>2, <3>3
  <2>6. asks'[c] # 0
    BY <1>0 DEF CallerInv, CallOf, registerTurnEvents, wire
  <2> QED
    BY <2>2, <2>3, <2>4, <2>5, <2>6 DEF CallerInv
<1> QED
  BY <1>5, <1>6, <1>7 DEF ClientInv

LEMMA PushStep ==
  ASSUME ClientInv, NEW c \in Callers, Push(c), ~panicked
  PROVE  ClientInv'
<1>0. ClientTyped /\ CallerInv(c) /\ step[c] \in {"push", "push and close"}
  BY DEF ClientInv, Push
<1>h. hold[c] # <<>> /\ hold[c] \in Seq(Nat)
  BY DEF ClientInv, ClientTyped, Push
<1>t. Head(hold[c]) \in Nat /\ Tail(hold[c]) \in Seq(Nat)
  BY <1>h
<1>v. PICK v \in Nat : v = Head(hold[c])
  BY <1>t
<1>1. Sent(c, v, TRUE) /\ hold' = [hold EXCEPT ![c] = Tail(hold[c])]
  BY <1>v DEF Push
<1>2. /\ chan' \in [Callers -> [buf : Seq(Nat), cap : Nat]] /\ panicked' \in BOOLEAN
      /\ \A d \in Callers : d # c => chan'[d] = chan[d]
      /\ chan'[c].cap = chan[c].cap /\ Len(chan'[c].buf) <= chan'[c].cap
      /\ ~panicked' => chan'[c].buf = Append(chan[c].buf, v)
  BY <1>0, <1>1, SentTo DEF CallerInv
<1>3. hold' \in [Callers -> Seq(Nat)] /\ hold'[c] = Tail(hold[c]) /\ \A d \in Callers : d # c => hold'[d] = hold[d]
  <2>1. hold \in [Callers -> Seq(Nat)]
    BY <1>0 DEF ClientTyped
  <2> QED
    BY <1>1, <1>t, <2>1
<1>4. ClientTyped'
  BY <1>0, <1>2, <1>3 DEF ClientTyped, Push, server_, wire, tables
<1>5. ASSUME NEW d \in Callers, d # c PROVE CallerInv(d)'
  <2>1. EventsSame(d) /\ chan'[d].cap = chan[d].cap
    BY <1>2, <1>3, <1>5 DEF EventsSame, Push, wire, tables
  <2> QED
    BY <1>5, <2>1, OthersUntouched DEF Push, wire, tables
<1>6. CallerInv(c)'
  <2>1. UNCHANGED <<got, early, out, asks, sent, reader, step, pending, resp, cut>>
    BY DEF Push, wire, tables
  <2>2. OwnWire(c)'
    BY <1>0, <2>1 DEF CallerInv, OwnWire, Sends, EventOf
  <2>3. Fresh(c)' /\ CallOf(c)'
    BY <1>0, <2>1 DEF CallerInv, Fresh, CallOf, Unregistered, NotCalled
  <2>4. UnderWay(c)' /\ c \notin cut' /\ ~panicked' => Spread(c)'
    <3> SUFFICES ASSUME UnderWay(c), c \notin cut, ~panicked' PROVE Spread(c)'
      BY <2>1 DEF UnderWay
    <3>1. PICK r \in 0 .. sent[c] : OnWire(out[asks[c]], c, r, sent[c]) /\ Kept(c, r)
      BY <1>0 DEF CallerInv, Spread
    <3>2. IsInjective(hold[c]) /\ IsInjective(chan[c].buf) /\ ToSet(hold[c]) \cap ToSet(chan[c].buf) = {}
      BY <3>1 DEF Kept, Parted
    <3>3. v \in ToSet(hold[c]) /\ IsInjective(hold'[c]) /\ ToSet(hold'[c]) = ToSet(hold[c]) \ {v}
      <4>1. Head(hold[c]) \in ToSet(hold[c]) /\ IsInjective(Tail(hold[c])) /\ ToSet(Tail(hold[c])) = ToSet(hold[c]) \ {Head(hold[c])}
        BY <1>h, <3>2, HeadTail
      <4> QED
        BY <1>v, <1>3, <4>1
    <3>4. chan'[c].buf = Append(chan[c].buf, v) /\ chan[c].buf \in Seq(Nat) /\ v \notin ToSet(chan[c].buf)
      BY <1>0, <1>2, <3>2, <3>3 DEF ClientTyped
    <3>5. IsInjective(chan'[c].buf) /\ ToSet(chan'[c].buf) = ToSet(chan[c].buf) \cup {v}
      BY <3>2, <3>4, AppendNew
    <3>6. InHand(c)' = InHand(c)
      BY <2>1 DEF InHand
    <3>7. Kept(c, r)'
      BY <2>1, <3>1, <3>3, <3>5, <3>6 DEF Kept, Parted
    <3> QED
      BY <2>1, <3>1, <3>7, SpreadMoved
  <2>5. asks'[c] # 0
    BY <1>0, <2>1 DEF CallerInv, CallOf
  <2> QED
    BY <1>2, <2>2, <2>3, <2>4, <2>5 DEF CallerInv
<1> QED
  BY <1>4, <1>5, <1>6 DEF ClientInv

\* The turn goes from one place to the next and nothing else moves.
LEMMA PushedStep ==
  ASSUME ClientInv, NEW c \in Callers, Pushed(c)
  PROVE  ClientInv'
<1>0. ClientTyped /\ CallerInv(c) /\ step[c] \in {"push", "push and close"} /\ step' = [step EXCEPT ![c] = "drain"]
  BY DEF ClientInv, Pushed, At
<1>1. step' \in [Callers -> CallerLabels] /\ step'[c] = "drain" /\ \A d \in Callers : d # c => step'[d] = step[d]
  BY <1>0 DEF ClientTyped, CallerLabels
<1>2. ClientTyped'
  BY <1>0, <1>1 DEF ClientTyped, Pushed, server_, wire, tables
<1>3. ASSUME NEW d \in Callers, d # c PROVE CallerInv(d)'
  <2>1. EventsSame(d)
    BY DEF EventsSame, Pushed, wire, tables
  <2> QED
    BY <1>1, <1>3, <2>1, OthersUntouched DEF Pushed, wire, tables
<1>4. CallerInv(c)'
  <2>1. UNCHANGED <<wire, reader, resp, pending, early, chan, hold, got, cut, panicked>>
    BY DEF Pushed, tables
  <2>2. OwnWire(c)'
    BY <1>0, <2>1 DEF CallerInv, OwnWire, Sends, EventOf, wire
  <2>3. Fresh(c)' /\ CallOf(c)' /\ asks'[c] # 0
    BY <1>0, <1>1, <2>1 DEF CallerInv, Fresh, CallOf, Unregistered, NotCalled, wire
  <2>4. UnderWay(c)' /\ c \notin cut' /\ ~panicked' => Spread(c)'
    <3> SUFFICES ASSUME c \notin cut, ~panicked PROVE Spread(c)'
      BY <2>1
    <3>1. UnderWay(c)
      BY <1>0 DEF UnderWay, NotCalled, Through
    <3>2. Spread(c)
      BY <1>0, <3>1 DEF CallerInv
    <3>3. PICK r \in 0 .. sent[c] : OnWire(out[asks[c]], c, r, sent[c]) /\ Kept(c, r)
      BY <3>2 DEF Spread
    <3>4. InHand(c)' = InHand(c)
      BY <2>1 DEF InHand
    <3>5. Kept(c, r)'
      BY <2>1, <3>3, <3>4 DEF Kept, Parted
    <3> QED
      BY <2>1, <3>3, <3>5, SpreadMoved DEF wire
  <2> QED
    BY <1>0, <2>1, <2>2, <2>3, <2>4 DEF CallerInv
<1> QED
  BY <1>2, <1>3, <1>4 DEF ClientInv

LEMMA DrainStep ==
  ASSUME ClientInv, NEW c \in Callers, Drain(c)
  PROVE  ClientInv'
<1>0. ClientTyped /\ CallerInv(c) /\ step[c] = "drain" /\ c \notin pending
  BY DEF ClientInv, CallerInv, CallOf, Drain
<1>1. CASE chan[c].buf = <<>>
  <2>1. step' = [step EXCEPT ![c] = "leave"] /\ UNCHANGED <<got, chan>>
    BY <1>1 DEF Drain, At
  <2>2. step' \in [Callers -> CallerLabels] /\ step'[c] = "leave" /\ \A d \in Callers : d # c => step'[d] = step[d]
    BY <1>0, <2>1 DEF ClientTyped, CallerLabels
  <2>3. ClientTyped'
    BY <1>0, <2>1, <2>2 DEF ClientTyped, Drain, server_, wire, tables
  <2>4. ASSUME NEW d \in Callers PROVE EventsSame(d)
    BY <2>1 DEF EventsSame, Drain, wire, tables
  <2>5. ASSUME NEW d \in Callers, d # c PROVE CallerInv(d)'
    BY <2>1, <2>2, <2>4, <2>5, OthersUntouched DEF Drain, wire, tables
  <2>6. CallerInv(c)'
    BY <1>0, <2>1, <2>2, <2>4, NoLines, CallerLeaves DEF Drain, wire, tables
  <2> QED
    BY <2>3, <2>5, <2>6 DEF ClientInv
<1>2. CASE chan[c].buf # <<>>
  <2>0. chan[c].buf \in Seq(Nat) /\ got[c] \in Seq(Nat)
    BY <1>0 DEF ClientTyped
  <2>v. PICK v \in Nat : v = Head(chan[c].buf)
    BY <1>2, <2>0
  <2>t. Tail(chan[c].buf) \in Seq(Nat) /\ Append(got[c], v) \in Seq(Nat) /\ Len(Tail(chan[c].buf)) <= Len(chan[c].buf)
    BY <1>2, <2>0
  <2>1. /\ got' = [got EXCEPT ![c] = Append(got[c], v)]
        /\ chan' = [chan EXCEPT ![c].buf = Tail(@)]
        /\ step' = IF v = LastEvent THEN [step EXCEPT ![c] = "leave"] ELSE step
    BY <1>2, <2>v DEF Drain
  <2>2. step' \in [Callers -> CallerLabels] /\ step'[c] \in {"drain", "leave"} /\ \A d \in Callers : d # c => step'[d] = step[d]
    BY <1>0, <2>1 DEF ClientTyped, CallerLabels
  <2>3. chan' \in [Callers -> [buf : Seq(Nat), cap : Nat]] /\ chan'[c].buf = Tail(chan[c].buf) /\ chan'[c].cap = chan[c].cap
        /\ \A d \in Callers : d # c => chan'[d] = chan[d]
    <3>1. chan \in [Callers -> [buf : Seq(Nat), cap : Nat]] /\ Tail(chan[c].buf) \in Seq(Nat)
      BY <1>0, <2>t DEF ClientTyped
    <3> QED
      BY <2>1, <3>1
  <2>4. got' \in [Callers -> Seq(Nat)] /\ got'[c] = Append(got[c], v) /\ \A d \in Callers : d # c => got'[d] = got[d]
    <3>1. got \in [Callers -> Seq(Nat)] /\ Append(got[c], v) \in Seq(Nat)
      BY <1>0, <2>t DEF ClientTyped
    <3> QED
      BY <2>1, <3>1
  <2>5. ClientTyped'
    BY <1>0, <2>2, <2>3, <2>4 DEF ClientTyped, Drain, server_, wire, tables
  <2>6. ASSUME NEW d \in Callers, d # c PROVE CallerInv(d)'
    <3>1. EventsSame(d) /\ chan'[d].cap = chan[d].cap
      BY <2>3, <2>4, <2>6 DEF EventsSame, Drain, wire, tables
    <3> QED
      BY <2>2, <2>6, <3>1, OthersUntouched DEF Drain, wire, tables
  <2>7. CallerInv(c)'
    <3>1. UNCHANGED <<out, asks, sent, reader, resp, pending, early, hold, cut, panicked>>
      BY DEF Drain, wire, tables
    <3>2. OwnWire(c)'
      BY <1>0, <3>1 DEF CallerInv, OwnWire, Sends, EventOf
    <3>3. Fresh(c)' /\ CallOf(c)' /\ asks'[c] # 0
      BY <1>0, <2>2, <3>1 DEF CallerInv, Fresh, CallOf, Unregistered, NotCalled
    <3>4. UnderWay(c)' /\ c \notin cut' /\ ~panicked' => Spread(c)'
      <4> SUFFICES ASSUME c \notin cut, ~panicked PROVE Spread(c)'
        BY <3>1
      <4>1. UnderWay(c)
        BY <1>0 DEF UnderWay, NotCalled, Through
      <4>2. PICK r \in 0 .. sent[c] : OnWire(out[asks[c]], c, r, sent[c]) /\ Kept(c, r)
        BY <1>0, <4>1 DEF CallerInv, Spread
      <4>3. IsInjective(got[c]) /\ IsInjective(chan[c].buf) /\ ToSet(got[c]) \cap ToSet(chan[c].buf) = {}
        BY <4>2 DEF Kept, Parted
      <4>4. v \in ToSet(chan[c].buf) /\ IsInjective(chan'[c].buf) /\ ToSet(chan'[c].buf) = ToSet(chan[c].buf) \ {v}
        BY <1>2, <2>0, <2>v, <2>3, <4>3, HeadTail
      <4>5. IsInjective(got'[c]) /\ ToSet(got'[c]) = ToSet(got[c]) \cup {v}
        <5>1. v \notin ToSet(got[c])
          BY <4>3, <4>4
        <5> QED
          BY <2>0, <2>4, <4>3, <5>1, AppendNew
      <4>6. InHand(c)' = InHand(c)
        BY <3>1 DEF InHand
      <4>7. Kept(c, r)'
        BY <3>1, <4>2, <4>4, <4>5, <4>6 DEF Kept, Parted
      <4> QED
        BY <3>1, <4>2, <4>7, SpreadMoved
    <3>5. Len(chan'[c].buf) <= chan'[c].cap
      <4>1. Len(Tail(chan[c].buf)) \in Nat /\ Len(chan[c].buf) \in Nat
        BY <2>0, <2>t
      <4>2. chan[c].cap \in Nat
        BY <1>0 DEF ClientTyped
      <4> QED
        BY <1>0, <2>t, <2>3, <4>1, <4>2 DEF CallerInv
    <3> QED
      BY <3>2, <3>3, <3>4, <3>5 DEF CallerInv
  <2> QED
    BY <2>5, <2>6, <2>7 DEF ClientInv
<1> QED
  BY <1>1, <1>2

LEMMA DrainStoppedStep ==
  ASSUME ClientInv, NEW c \in Callers, DrainStopped(c)
  PROVE  ClientInv'
<1>0. ClientTyped /\ CallerInv(c) /\ step[c] = "drain" /\ c \notin pending /\ step' = [step EXCEPT ![c] = "leave"]
  BY DEF ClientInv, CallerInv, CallOf, DrainStopped, At
<1>1. step' \in [Callers -> CallerLabels] /\ step'[c] = "leave" /\ \A d \in Callers : d # c => step'[d] = step[d]
  BY <1>0 DEF ClientTyped, CallerLabels
<1>2. ClientTyped'
  BY <1>0, <1>1 DEF ClientTyped, DrainStopped, server_, wire, tables, chans
<1>3. ASSUME NEW d \in Callers PROVE EventsSame(d)
  BY DEF EventsSame, DrainStopped, wire, tables, chans
<1>4. ASSUME NEW d \in Callers, d # c PROVE CallerInv(d)'
  BY <1>1, <1>3, <1>4, OthersUntouched DEF DrainStopped, wire, tables, chans
<1>5. CallerInv(c)'
  BY <1>0, <1>1, <1>3, NoLines, CallerLeaves DEF DrainStopped, wire, tables, chans
<1> QED
  BY <1>2, <1>4, <1>5 DEF ClientInv

LEMMA CloseClientStep ==
  ASSUME ClientInv, NEW c \in Callers, CloseClient(c)
  PROVE  ClientInv'
<1>0. ClientTyped /\ CallerInv(c) /\ step[c] = "leave" /\ c \notin pending /\ step' = [step EXCEPT ![c] = "closing"]
  BY DEF ClientInv, CallerInv, CallOf, CloseClient, At
<1>1. step' \in [Callers -> CallerLabels] /\ step'[c] = "closing" /\ \A d \in Callers : d # c => step'[d] = step[d]
  BY <1>0 DEF ClientTyped, CallerLabels
<1>2. early' \in [Callers -> Seq(Nat)] /\ (\A d \in Callers : early'[d] = <<>>) /\ turns' = {} /\ earlyClosed' = {}
  <2>1. <<>> \in Seq(Nat)
    OBVIOUS
  <2> QED
    BY <2>1 DEF CloseClient
<1>3. grabbed' \in [Callers -> SUBSET Callers] /\ server' \in Servers \cup {0} /\ cut' \subseteq Callers /\ alive' \subseteq alive
  BY <1>0 DEF ClientTyped, CloseClient, Hurt
<1>4. ClientTyped'
  BY <1>0, <1>1, <1>2, <1>3 DEF ClientTyped, CloseClient, wire, chans
<1>5. ASSUME NEW d \in Callers, d # c PROVE CallerInv(d)'
  <2>1. UnderWay(d) => d \in cut'
    BY <1>5 DEF UnderWay, CloseClient, Hurt
  <2> QED
    BY <1>1, <1>2, <1>5, <2>1, CallerCut DEF CloseClient, wire, chans
<1>6. CallerInv(c)'
  <2>1. UNCHANGED <<wire, reader, resp, pending, chan>>
    BY DEF CloseClient, chans
  <2>2. OwnWire(c)'
    BY <1>0, <2>1 DEF CallerInv, OwnWire, Sends, EventOf, wire
  <2>3. Fresh(c)' /\ CallOf(c)' /\ ~UnderWay(c)'
    BY <1>0, <1>1, <2>1 DEF Fresh, CallOf, UnderWay, Unregistered, NotCalled, Through
  <2> QED
    BY <1>0, <1>2, <2>1, <2>2, <2>3 DEF CallerInv, wire
<1> QED
  BY <1>4, <1>5, <1>6 DEF ClientInv

LEMMA CloseChannelsStep ==
  ASSUME ClientInv, NEW c \in Callers, CloseChannels(c)
  PROVE  ClientInv'
<1>0. ClientTyped /\ CallerInv(c) /\ step[c] = "closing" /\ c \notin pending /\ step' = [step EXCEPT ![c] = "done"]
  BY DEF ClientInv, CallerInv, CallOf, CloseChannels, At
<1>1. step' \in [Callers -> CallerLabels] /\ step'[c] = "done" /\ \A d \in Callers : d # c => step'[d] = step[d]
  BY <1>0 DEF ClientTyped, CallerLabels
<1>2. shut' \subseteq Callers /\ grabbed' \in [Callers -> SUBSET Callers]
  BY <1>0 DEF ClientTyped, CloseChannels
<1>3. ClientTyped'
  BY <1>0, <1>1, <1>2 DEF ClientTyped, CloseChannels, server_, wire, tables
<1>4. ASSUME NEW d \in Callers PROVE EventsSame(d)
  BY DEF EventsSame, CloseChannels, wire, tables
<1>5. ASSUME NEW d \in Callers, d # c PROVE CallerInv(d)'
  BY <1>1, <1>4, <1>5, OthersUntouched DEF CloseChannels, wire, tables
<1>6. CallerInv(c)'
  BY <1>0, <1>1, <1>4, NoLines, CallerLeaves DEF CloseChannels, wire, tables
<1> QED
  BY <1>3, <1>5, <1>6 DEF ClientInv

-----------------------------------------------------------------------------
(* The client.                                                              *)

LEMMA ClientInitInv == ClientInit => ClientInv
<1> SUFFICES ASSUME ClientInit PROVE ClientInv
  OBVIOUS
<1>1. ClientTyped
  <2>1. <<>> \in Seq(Nat) /\ <<>> \in Seq(Lines) /\ Scan \in ReaderStates /\ Scan.do = "scan" /\ "idle" \in CallerLabels
    BY DEF Scan, ReaderStates, CallerLabels
  <2>2. out \in [Servers -> Seq(Lines)] /\ asks \in [Callers -> Servers \cup {0}] /\ sent \in [Callers -> Nat]
    BY <2>1 DEF ClientInit
  <2>3. early \in [Callers -> Seq(Nat)] /\ hold \in [Callers -> Seq(Nat)] /\ got \in [Callers -> Seq(Nat)]
    BY <2>1 DEF ClientInit
  <2>4. chan \in [Callers -> [buf : Seq(Nat), cap : Nat]]
    BY <2>1 DEF ClientInit
  <2>5. reader \in [Servers -> ReaderStates] /\ \A s \in Servers : reader[s].do \in {"send", "close"} => reader[s].of \in Callers
    BY <2>1 DEF ClientInit
  <2>6. step \in [Callers -> CallerLabels] /\ grabbed \in [Callers -> SUBSET Callers] /\ resp \in [Callers -> {"none", "result", "closed"}]
    BY <2>1 DEF ClientInit
  <2> QED
    BY <2>2, <2>3, <2>4, <2>5, <2>6 DEF ClientInit, ClientTyped, ReaderStates
<1>2. ASSUME NEW c \in Callers PROVE CallerInv(c)
  <2>1. \A s \in Servers : ~Sends(s, c) /\ Len(out[s]) = 0
    BY DEF ClientInit, Sends, Scan
  <2>2. OwnWire(c)
    BY <2>1 DEF OwnWire
  <2>3. Fresh(c) /\ CallOf(c) /\ ~UnderWay(c)
    BY <2>1 DEF Fresh, CallOf, UnderWay, ClientInit, NotCalled
  <2>4. Len(chan[c].buf) = 0 /\ chan[c].cap = 0 /\ sent[c] = 0 /\ early[c] = <<>>
    BY DEF ClientInit
  <2> QED
    BY <2>2, <2>3, <2>4 DEF CallerInv
<1> QED
  BY <1>1, <1>2 DEF ClientInv

LEMMA ClientNextInv == ClientInv /\ [ClientNext]_clientVars => ClientInv'
<1> SUFFICES ASSUME ClientInv, [ClientNext]_clientVars PROVE ClientInv'
  OBVIOUS
<1>1. CASE UNCHANGED clientVars
  <2>1. UNCHANGED <<server, born, alive, out, asks, answered, sent, pending, turns, early, earlyClosed, resp, chan, shut,
                    reader, step, hold, grabbed, got, cut, overtaken, panicked>>
    BY <1>1 DEF clientVars, server_, wire, tables, chans, steps
  <2>2. ClientTyped'
    BY <2>1 DEF ClientInv, ClientTyped
  <2>3. ASSUME NEW d \in Callers PROVE CallerInv(d)'
    <3>1. CallOf(d)' /\ EventsSame(d)
      BY <2>1, CallKept DEF ClientInv, CallerInv, CallSame, EventsSame
    <3> QED
      BY <2>1, <3>1, NoLines, CallerKept
  <2> QED
    BY <2>2, <2>3 DEF ClientInv
<1>2. ASSUME ~panicked, NEW c \in Callers,
             \/ Look(c) \/ Spawn(c) \/ Call(c) \/ CallStopped(c) \/ TakeResponse(c)
             \/ Answer(c) \/ Emit(c)
             \/ registerTurnEvents(c) \/ Push(c) \/ Pushed(c) \/ Drain(c) \/ DrainStopped(c)
             \/ CloseClient(c) \/ CloseChannels(c)
      PROVE  ClientInv'
  BY <1>2, LookStep, SpawnStep, CallStep, CallStoppedStep, TakeResponseStep, AnswerStep, EmitStep, registerTurnEventsStep,
     PushStep, PushedStep, DrainStep, DrainStoppedStep, CloseClientStep, CloseChannelsStep
<1>3. ASSUME ~panicked, NEW s \in Servers,
             \/ ServerDies(s) \/ deliverResponse(s) \/ handleNotification(s)
             \/ ReaderSend(s) \/ ReaderClose(s) \/ failPending(s)
      PROVE  ClientInv'
  BY <1>3, ServerDiesStep, deliverResponseStep, handleNotificationStep, ReaderSendStep, ReaderCloseStep, failPendingStep
<1> QED
  BY <1>1, <1>2, <1>3 DEF ClientNext

-----------------------------------------------------------------------------
(* The order of the events.                                                 *)

\* s holds the numbers behind n, in their order
Run(s, n) == \A i \in 1 .. Len(s) : s[i] = n + i
Row(g, b, h, e) ==
  /\ Run(g, 0) /\ Run(b, Len(g)) /\ Run(h, Len(g) + Len(b)) /\ Run(e, Len(g) + Len(b) + Len(h))

\* the places of a turn hold its events one behind the other, the reader's hand the last
InRow(c) ==
  /\ Row(got[c], chan[c].buf, hold[c], early[c])
  /\ \A t \in Servers : Sends(t, c) => early[c] = <<>> /\ reader[t].ev = Len(got[c]) + Len(chan[c].buf) + Len(hold[c]) + 1
OrderOf(c) ==
  /\ c \in turns => early[c] = <<>>
  /\ c \notin cut \cup overtaken => Run(got[c], 0)
  /\ UnderWay(c) /\ c \notin cut \cup overtaken /\ ~panicked => InRow(c)
EndOf == \A s \in Servers : reader[s].do = "over" => s \in 1 .. born /\ s \notin alive
TableOf == \A c \in pending : reader[asks[c]].do # "over"
OrderInv == EndOf /\ TableOf /\ \A c \in Callers : OrderOf(c)

LEMMA RunAppend ==
  ASSUME NEW s \in Seq(Nat), NEW n \in Nat, Run(s, n), NEW v \in Nat, v = n + Len(s) + 1
  PROVE  Run(Append(s, v), n) /\ Len(Append(s, v)) = Len(s) + 1
<1> DEFINE k == Len(s)
           t == Append(s, v)
<1>1. k \in Nat /\ Len(t) = k + 1 /\ t[k + 1] = v /\ \A i \in 1 .. k : t[i] = s[i]
  OBVIOUS
<1>2. \A i \in 1 .. k : s[i] = n + i
  BY DEF Run
<1>3. v = n + (k + 1)
  BY <1>1
<1> HIDE DEF k, t
<1>4. \A i \in 1 .. k + 1 : i \in 1 .. k \/ i = k + 1
  BY <1>1
<1>5. \A i \in 1 .. k + 1 : t[i] = n + i
  BY <1>1, <1>2, <1>3, <1>4
<1> QED
  BY <1>1, <1>5 DEF Run, t, k

LEMMA RunTail ==
  ASSUME NEW s \in Seq(Nat), NEW n \in Nat, Run(s, n), s # <<>>
  PROVE  Head(s) = n + 1 /\ Run(Tail(s), n + 1) /\ Len(Tail(s)) = Len(s) - 1 /\ Tail(s) \in Seq(Nat)
<1> DEFINE k == Len(s)
           t == Tail(s)
<1>1. k \in Nat /\ k > 0 /\ Len(t) = k - 1 /\ Head(s) = s[1] /\ t \in Seq(Nat) /\ \A i \in 1 .. k - 1 : t[i] = s[i + 1]
  OBVIOUS
<1>2. \A i \in 1 .. k : s[i] = n + i
  BY DEF Run
<1> HIDE DEF k, t
<1>3. \A i \in 1 .. k - 1 : i + 1 \in 1 .. k /\ n + (i + 1) = (n + 1) + i
  BY <1>1
<1>4. \A i \in 1 .. k - 1 : t[i] = (n + 1) + i
  BY <1>1, <1>2, <1>3
<1>5. s[1] = n + 1
  BY <1>1, <1>2
<1> QED
  BY <1>1, <1>4, <1>5 DEF Run, t, k

LEMMA RunEmpty ==
  ASSUME NEW n, NEW s, s = <<>>
  PROVE  Run(s, n)
BY DEF Run

\* What a run holds: nothing above its end, and its end.
LEMMA RunEnds ==
  ASSUME NEW s \in Seq(Nat), NEW n \in Nat, Run(s, n)
  PROVE  (\A v \in ToSet(s) : v <= n + Len(s)) /\ (Len(s) # 0 => n + Len(s) \in ToSet(s))
<1>1. Len(s) \in Nat /\ DOMAIN s = 1 .. Len(s)
  OBVIOUS
<1>2. \A v \in ToSet(s) : v <= n + Len(s)
  BY <1>1 DEF Run, ToSet
<1>3. Len(s) # 0 => s[Len(s)] = n + Len(s) /\ Len(s) \in DOMAIN s
  BY <1>1 DEF Run
<1> QED
  BY <1>2, <1>3 DEF ToSet

\* A row that holds the events 1 .. r is as long as they are many.
LEMMA RowLength ==
  ASSUME NEW g \in Seq(Nat), NEW b \in Seq(Nat), NEW h \in Seq(Nat), NEW e \in Seq(Nat), NEW r \in Nat,
         Row(g, b, h, e), ToSet(g) \cup ToSet(b) \cup ToSet(h) \cup ToSet(e) = 1 .. r
  PROVE  r = Len(g) + Len(b) + Len(h) + Len(e)
<1>1. PICK k \in Nat, l \in Nat, m \in Nat, n \in Nat : k = Len(g) /\ l = Len(b) /\ m = Len(h) /\ n = Len(e)
  OBVIOUS
<1>2. /\ (\A v \in ToSet(g) : v <= k) /\ (k # 0 => k \in ToSet(g))
      /\ (\A v \in ToSet(b) : v <= k + l) /\ (l # 0 => k + l \in ToSet(b))
      /\ (\A v \in ToSet(h) : v <= k + l + m) /\ (m # 0 => k + l + m \in ToSet(h))
      /\ (\A v \in ToSet(e) : v <= k + l + m + n) /\ (n # 0 => k + l + m + n \in ToSet(e))
  <2>1. Run(g, 0) /\ Run(b, k) /\ Run(h, k + l) /\ Run(e, k + l + m)
    BY <1>1 DEF Row
  <2>2. (\A v \in ToSet(g) : v <= 0 + k) /\ (k # 0 => 0 + k \in ToSet(g))
    BY <1>1, <2>1, RunEnds
  <2>3. (\A v \in ToSet(b) : v <= k + l) /\ (l # 0 => k + l \in ToSet(b))
    BY <1>1, <2>1, RunEnds
  <2>4. (\A v \in ToSet(h) : v <= k + l + m) /\ (m # 0 => k + l + m \in ToSet(h))
    <3>1. k + l \in Nat
      OBVIOUS
    <3> QED
      BY <1>1, <2>1, <3>1, RunEnds
  <2>5. (\A v \in ToSet(e) : v <= k + l + m + n) /\ (n # 0 => k + l + m + n \in ToSet(e))
    <3>1. k + l + m \in Nat
      OBVIOUS
    <3> QED
      BY <1>1, <2>1, <3>1, RunEnds
  <2>6. 0 + k = k
    OBVIOUS
  <2> QED
    BY <2>2, <2>3, <2>4, <2>5, <2>6
<1>3. r # 0 => r \in ToSet(g) \cup ToSet(b) \cup ToSet(h) \cup ToSet(e)
  OBVIOUS
<1>4. r <= k + l + m + n
  BY <1>2, <1>3
<1>5. \A v \in ToSet(g) \cup ToSet(b) \cup ToSet(h) \cup ToSet(e) : v <= r
  OBVIOUS
<1>6. k + l + m + n <= r
  <2>1. CASE n # 0
    BY <1>2, <1>5, <2>1
  <2>2. CASE n = 0 /\ m # 0
    BY <1>2, <1>5, <2>2
  <2>3. CASE n = 0 /\ m = 0 /\ l # 0
    BY <1>2, <1>5, <2>3
  <2>4. CASE n = 0 /\ m = 0 /\ l = 0 /\ k # 0
    BY <1>2, <1>5, <2>4
  <2> QED
    BY <2>1, <2>2, <2>3, <2>4
<1>7. r = k + l + m + n
  BY <1>4, <1>6
<1> QED
  BY <1>1, <1>7

\* The lengths of the places of a turn.
LEMMA Lengths ==
  ASSUME ClientTyped, NEW c \in Callers
  PROVE  \E k \in Nat, l \in Nat, m \in Nat : k = Len(got[c]) /\ l = Len(chan[c].buf) /\ m = Len(hold[c])
<1>1. got[c] \in Seq(Nat) /\ chan[c].buf \in Seq(Nat) /\ hold[c] \in Seq(Nat)
  BY DEF ClientTyped
<1>2. Len(got[c]) \in Nat /\ Len(chan[c].buf) \in Nat /\ Len(hold[c]) \in Nat
  BY <1>1
<1> QED
  BY <1>2, Zenon

\* A step that moves no event of d.
PlacesSame(d) == early'[d] = early[d] /\ chan'[d].buf = chan[d].buf /\ hold'[d] = hold[d] /\ got'[d] = got[d]

LEMMA OrderKept ==
  ASSUME NEW d \in Callers, OrderOf(d), PlacesSame(d), HandsSame(d), UnderWay(d)' => UnderWay(d), d \in turns' => d \in turns,
         d \in cut \cup overtaken => d \in cut' \cup overtaken', panicked => panicked'
  PROVE  OrderOf(d)'
<1>1. (d \in turns' => early'[d] = <<>>) /\ (d \notin cut' \cup overtaken' => Run(got'[d], 0))
  BY DEF OrderOf, PlacesSame
<1>2. InRow(d) => InRow(d)'
  BY DEF InRow, PlacesSame, HandsSame
<1> QED
  BY <1>1, <1>2 DEF OrderOf, Run

\* The tables were emptied under d.
LEMMA OrderCut ==
  ASSUME NEW d \in Callers, OrderOf(d), got' = got, d \notin turns', d \in cut => d \in cut', overtaken' = overtaken,
         UnderWay(d)' => d \in cut'
  PROVE  OrderOf(d)'
BY DEF OrderOf, Run

\* A reader that goes on is not over.
LEMMA NotOver ==
  ASSUME ClientInv, NEW s \in Servers, handleNotification(s) \/ ReaderSend(s) \/ ReaderClose(s)
  PROVE  \A t \in Servers : reader'[t].do = "over" => reader[t].do = "over"
<1>1. ClientTyped
  BY DEF ClientInv
<1>2. CASE handleNotification(s)
  <2> DEFINE x == [do |-> "send", of |-> Line(s).of, ev |-> Line(s).ev]
  <2>1. x.do # "over"
    OBVIOUS
  <2>2. reader' = reader \/ reader' = [reader EXCEPT ![s] = x]
    BY <1>2 DEF handleNotification
  <2> HIDE DEF x
  <2> QED
    BY <1>1, <2>1, <2>2 DEF ClientTyped
<1>3. CASE ReaderSend(s)
  <2> DEFINE x == IF reader[s].ev = LastEvent THEN [reader[s] EXCEPT !.do = "close"] ELSE Scan
  <2>1. x.do # "over"
    BY <1>1 DEF ClientTyped, Scan
  <2>2. reader' = [reader EXCEPT ![s] = x]
    BY <1>3 DEF ReaderSend
  <2> HIDE DEF x
  <2> QED
    BY <1>1, <2>1, <2>2 DEF ClientTyped
<1>4. CASE ReaderClose(s)
  BY <1>1, <1>4 DEF ClientTyped, ReaderClose, Scan
<1> QED
  BY <1>2, <1>3, <1>4

\* Who ends a reader, and who asks it.
LEMMA EndOfNext == ClientInv /\ OrderInv /\ [ClientNext]_clientVars => EndOf'
<1> SUFFICES ASSUME ClientInv, OrderInv, [ClientNext]_clientVars PROVE EndOf'
  OBVIOUS
<1>1. ClientTyped /\ EndOf
  BY DEF ClientInv, OrderInv
<1>2. CASE UNCHANGED <<reader, born>> /\ alive' \subseteq alive
  BY <1>1, <1>2 DEF EndOf
<1>3. ASSUME NEW c \in Callers, Spawn(c) PROVE EndOf'
  <2>1. born \in Nat /\ born' = born + 1 /\ alive' = alive \cup {born + 1} /\ reader' = reader
    BY <1>1, <1>3 DEF ClientTyped, Spawn
  <2>2. \A s \in 1 .. born : s \in 1 .. born + 1 /\ s # born + 1
    BY <2>1
  <2> QED
    BY <1>1, <2>1, <2>2 DEF EndOf
<1>4. ASSUME NEW c \in Callers,
             \/ Look(c) \/ Call(c) \/ CallStopped(c) \/ TakeResponse(c)
             \/ Answer(c) \/ Emit(c)
             \/ registerTurnEvents(c) \/ Push(c) \/ Pushed(c) \/ Drain(c) \/ DrainStopped(c)
             \/ CloseClient(c) \/ CloseChannels(c)
      PROVE  UNCHANGED <<reader, born>> /\ alive' \subseteq alive
  BY <1>4 DEF server_, Look, Call, CallStopped, TakeResponse, Answer, Emit, registerTurnEvents, Push, Pushed, Drain,
     DrainStopped, CloseClient, CloseChannels
<1>5. ASSUME NEW s \in Servers, ServerDies(s) \/ deliverResponse(s)
      PROVE  UNCHANGED <<reader, born>> /\ alive' \subseteq alive
  BY <1>5 DEF server_, ServerDies, deliverResponse
<1>6. ASSUME NEW s \in Servers, handleNotification(s) \/ ReaderSend(s) \/ ReaderClose(s) PROVE EndOf'
  <2>1. UNCHANGED <<born, alive>>
    BY <1>6 DEF server_, handleNotification, ReaderSend, ReaderClose
  <2>2. \A t \in Servers : reader'[t].do = "over" => reader[t].do = "over"
    BY <1>6, NotOver
  <2> QED
    BY <1>1, <2>1, <2>2 DEF EndOf
<1>7. ASSUME NEW s \in Servers, failPending(s) PROVE EndOf'
  <2>1. UNCHANGED <<born, alive>> /\ s \in 1 .. born
    BY <1>7 DEF server_, failPending
  <2>2. \/ s \notin alive /\ reader' = [reader EXCEPT ![s] = [Scan EXCEPT !.do = "over"]]
        \/ reader' = [reader EXCEPT ![s] = [Scan EXCEPT !.do = "deaf"]]
    BY <1>7 DEF failPending
  <2> QED
    BY <1>1, <2>1, <2>2 DEF EndOf, ClientTyped, Scan
<1>8. UNCHANGED clientVars => UNCHANGED <<reader, born>> /\ alive' \subseteq alive
  BY DEF clientVars, server_
<1> QED
  BY <1>2, <1>3, <1>4, <1>5, <1>6, <1>7, <1>8 DEF ClientNext

LEMMA TableOfNext == ClientInv /\ OrderInv /\ [ClientNext]_clientVars => TableOf'
<1> SUFFICES ASSUME ClientInv, OrderInv, [ClientNext]_clientVars PROVE TableOf'
  OBVIOUS
<1>1. ClientTyped /\ EndOf /\ TableOf /\ \A c \in pending : asks[c] \in Servers
  BY DEF ClientInv, ClientTyped, CallerInv, CallOf, OrderInv
<1>2. ASSUME pending' \subseteq pending, UNCHANGED asks, \A t \in Servers : reader'[t].do = "over" => reader[t].do = "over"
      PROVE  TableOf'
  BY <1>1, <1>2 DEF TableOf
<1>3. CASE pending' \subseteq pending /\ UNCHANGED <<asks, reader>>
  BY <1>2, <1>3
<1>4. ASSUME NEW c \in Callers, Call(c) PROVE TableOf'
  <2>1. CASE server \in alive
    <3>1. pending' = pending \cup {c} /\ asks' = [asks EXCEPT ![c] = server] /\ reader' = reader
      BY <1>4, <2>1 DEF Call
    <3>2. reader[server].do # "over"
      BY <1>1, <2>1 DEF EndOf, ClientTyped
    <3> QED
      BY <1>1, <3>1, <3>2 DEF TableOf, ClientTyped
  <2>2. CASE server \notin alive
    BY <1>3, <1>4, <2>2 DEF Call
  <2> QED
    BY <2>1, <2>2
<1>5. ASSUME NEW c \in Callers,
             \/ Look(c) \/ Spawn(c) \/ CallStopped(c) \/ TakeResponse(c)
             \/ Answer(c) \/ Emit(c)
             \/ registerTurnEvents(c) \/ Push(c) \/ Pushed(c) \/ Drain(c) \/ DrainStopped(c)
             \/ CloseClient(c) \/ CloseChannels(c)
      PROVE  pending' \subseteq pending /\ UNCHANGED <<asks, reader>>
  BY <1>5 DEF wire, tables, Look, Spawn, CallStopped, TakeResponse, Answer, Emit, registerTurnEvents, Push, Pushed, Drain,
     DrainStopped, CloseClient, CloseChannels
<1>6. ASSUME NEW s \in Servers, ServerDies(s) \/ deliverResponse(s)
      PROVE  pending' \subseteq pending /\ UNCHANGED <<asks, reader>>
  BY <1>6 DEF wire, tables, ServerDies, deliverResponse
<1>7. ASSUME NEW s \in Servers, handleNotification(s) \/ ReaderSend(s) \/ ReaderClose(s) PROVE TableOf'
  <2>1. pending' \subseteq pending /\ UNCHANGED asks
    BY <1>7 DEF wire, tables, handleNotification, ReaderSend, ReaderClose
  <2> QED
    BY <1>2, <1>7, <2>1, NotOver
<1>8. ASSUME NEW s \in Servers, failPending(s) PROVE TableOf'
  BY <1>8 DEF failPending, TableOf
<1>9. UNCHANGED clientVars => pending' \subseteq pending /\ UNCHANGED <<asks, reader>>
  BY DEF clientVars, wire, tables
<1> QED
  BY <1>3, <1>4, <1>5, <1>6, <1>7, <1>8, <1>9 DEF ClientNext

\* Steps that move no event.
LEMMA QuietOrder ==
  ASSUME ClientInv, OrderInv, NEW d \in Callers,
         \/ \E c \in Callers :
              \/ Look(c) \/ CallStopped(c) \/ TakeResponse(c) \/ Answer(c) \/ Emit(c) \/ Pushed(c) \/ DrainStopped(c) \/ CloseChannels(c)
         \/ \E s \in Servers : ServerDies(s) \/ deliverResponse(s) \/ ReaderClose(s) \/ failPending(s)
         \/ UNCHANGED clientVars
  PROVE  OrderOf(d)'
<1>0. ClientTyped /\ OrderOf(d)
  BY DEF ClientInv, OrderInv
<1>1. ASSUME NEW c \in Callers,
             \/ Look(c) \/ CallStopped(c) \/ TakeResponse(c) \/ Answer(c) \/ Emit(c) \/ Pushed(c) \/ DrainStopped(c) \/ CloseChannels(c)
      PROVE  /\ UNCHANGED <<early, hold, got, reader, turns, cut, overtaken, panicked>> /\ chan' = chan
             /\ step'[d] = step[d] \/ step'[d] \in {"call", "spawn", "leave", "register", "drain", "done"}
             /\ UnderWay(d)' => UnderWay(d)
  <2>1. UNCHANGED <<early, hold, got, reader, turns, cut, overtaken, panicked>> /\ chan' = chan
    BY <1>1 DEF wire, tables, chans, steps, Look, CallStopped, TakeResponse, Answer, Emit, Pushed, DrainStopped, CloseChannels
  <2>2. \/ step' = step \/ (\E l \in {"call", "spawn", "leave", "done"} : step' = [step EXCEPT ![c] = l])
        \/ (step[c] \in {"wait", "push", "push and close"} /\ \E l \in {"register", "drain"} : step' = [step EXCEPT ![c] = l])
    BY <1>1 DEF steps, At, Look, CallStopped, TakeResponse, Answer, Emit, Pushed, DrainStopped, CloseChannels
  <2>3. step \in [Callers -> CallerLabels]
    BY <1>0 DEF ClientTyped
  <2>4. UnderWay(d)' => UnderWay(d)
    BY <2>2, <2>3 DEF UnderWay, NotCalled, Through
  <2>5. step'[d] = step[d] \/ step'[d] \in {"call", "spawn", "leave", "register", "drain", "done"}
    BY <2>2, <2>3
  <2> QED
    BY <2>1, <2>4, <2>5
<1>2. CASE \E c \in Callers :
              \/ Look(c) \/ CallStopped(c) \/ TakeResponse(c) \/ Answer(c) \/ Emit(c) \/ Pushed(c) \/ DrainStopped(c) \/ CloseChannels(c)
  <2>1. UNCHANGED <<early, hold, got, reader, turns, cut, overtaken, panicked>> /\ chan' = chan /\ (UnderWay(d)' => UnderWay(d))
    BY <1>1, <1>2
  <2>2. PlacesSame(d) /\ HandsSame(d)
    BY <2>1 DEF PlacesSame, HandsSame, Sends
  <2> QED
    BY <1>0, <2>1, <2>2, OrderKept
<1>3. ASSUME NEW s \in Servers, ServerDies(s) \/ deliverResponse(s) \/ ReaderClose(s) \/ failPending(s) PROVE OrderOf(d)'
  <2>1. UNCHANGED <<early, hold, got, step, cut, overtaken, panicked>> /\ chan' = chan /\ turns' = turns
    BY <1>3 DEF wire, tables, chans, steps, ServerDies, deliverResponse, ReaderClose, failPending
  <2>2. HandsSame(d)
    <3>1. CASE ServerDies(s) \/ deliverResponse(s)
      BY <3>1 DEF HandsSame, Sends, ServerDies, deliverResponse
    <3>2. CASE ReaderClose(s)
      BY <1>0, <3>2 DEF HandsSame, Sends, ReaderClose, Scan, ClientTyped
    <3>3. CASE failPending(s)
      <4>1. PICK label \in {"over", "deaf"} : reader' = [reader EXCEPT ![s] = [Scan EXCEPT !.do = label]]
        BY <3>3 DEF failPending
      <4>2. reader[s] = Scan
        BY <3>3 DEF failPending
      <4> DEFINE over == [Scan EXCEPT !.do = label]
      <4>3. reader' = [reader EXCEPT ![s] = over] /\ over.do # "send" /\ Scan.do # "send"
        BY <4>1 DEF Scan
      <4> HIDE DEF over
      <4> QED
        BY <1>0, <4>2, <4>3 DEF HandsSame, Sends, ClientTyped
    <3> QED
      BY <1>3, <3>1, <3>2, <3>3
  <2>3. PlacesSame(d)
    BY <2>1 DEF PlacesSame
  <2>4. UnderWay(d)' => UnderWay(d)
    BY <2>1 DEF UnderWay
  <2> QED
    BY <1>0, <2>1, <2>2, <2>3, <2>4, OrderKept
<1>4. CASE UNCHANGED clientVars
  <2>1. UNCHANGED <<early, hold, got, step, cut, overtaken, panicked, reader, chan, turns>>
    BY <1>4 DEF clientVars, tables, chans, steps
  <2> QED
    BY <1>0, <2>1, OrderKept DEF PlacesSame, HandsSame, Sends, UnderWay
<1> QED
  BY <1>2, <1>3, <1>4

\* The client is closed or started anew.
LEMMA CutOrder ==
  ASSUME ClientInv, OrderInv, NEW d \in Callers, NEW c \in Callers, Spawn(c) \/ CloseClient(c)
  PROVE  OrderOf(d)'
<1>1. got' = got /\ turns' = {} /\ cut \subseteq cut' /\ overtaken' = overtaken /\ OrderOf(d)
  BY DEF Spawn, CloseClient, Hurt, OrderInv
<1>2. UnderWay(d)' => d \in cut'
  <2>1. step \in [Callers -> CallerLabels]
    BY DEF ClientInv, ClientTyped
  <2>2. d = c => step'[d] \in {"call", "closing"}
    BY <2>1 DEF Spawn, CloseClient, At
  <2>3. d # c => step'[d] = step[d] /\ (UnderWay(d) => d \in cut')
    BY <2>1 DEF Spawn, CloseClient, At, Hurt, UnderWay
  <2> QED
    BY <2>2, <2>3 DEF UnderWay, NotCalled, Through
<1> QED
  BY <1>1, <1>2, OrderCut

\* A call begins with nothing in the places.
LEMMA CallOrder ==
  ASSUME ClientInv, OrderInv, NEW d \in Callers, NEW c \in Callers, Call(c)
  PROVE  OrderOf(d)'
<1>1. ClientTyped /\ OrderOf(d) /\ CallerInv(c) /\ step[c] = "call"
  BY DEF ClientInv, OrderInv, Call
<1>2. UNCHANGED <<early, hold, got, reader, turns, cut, overtaken, panicked, chan>>
  BY DEF chans, Call
<1>3. CASE d # c
  <2>1. step'[d] = step[d]
    BY <1>1, <1>3 DEF Call, At, ClientTyped
  <2> QED
    BY <1>1, <1>2, <2>1, OrderKept DEF PlacesSame, HandsSame, Sends, UnderWay
<1>4. CASE d = c
  <2>1. got[c] = <<>> /\ chan[c].buf = <<>> /\ hold[c] = <<>> /\ early[c] = <<>> /\ \A t \in Servers : ~Sends(t, c)
    BY <1>1 DEF CallerInv, CallOf, Fresh, Unregistered, NotCalled
  <2>2. InRow(c)'
    BY <1>2, <2>1 DEF InRow, Row, Run, Sends
  <2>3. Run(got'[c], 0) /\ early'[c] = <<>>
    BY <1>2, <2>1 DEF Run
  <2> QED
    BY <1>4, <2>2, <2>3 DEF OrderOf
<1> QED
  BY <1>3, <1>4

\* What was kept is taken over.
LEMMA RegisterOrder ==
  ASSUME ClientInv, OrderInv, NEW d \in Callers, NEW c \in Callers, registerTurnEvents(c)
  PROVE  OrderOf(d)'
<1>1. ClientTyped /\ OrderOf(d) /\ CallerInv(c) /\ step[c] = "register"
  BY DEF ClientInv, OrderInv, registerTurnEvents
<1>2. UNCHANGED <<got, reader, cut, overtaken, panicked>>
  BY DEF registerTurnEvents
<1>3. /\ chan'[d].buf = chan[d].buf /\ hold'[c] = early[c] /\ early'[c] = <<>> /\ (d \in turns' => d \in turns \/ d = c)
      /\ d # c => hold'[d] = hold[d] /\ early'[d] = early[d] /\ step'[d] = step[d]
  <2>1. step \in [Callers -> CallerLabels] /\ hold \in [Callers -> Seq(Nat)] /\ early \in [Callers -> Seq(Nat)]
        /\ chan \in [Callers -> [buf : Seq(Nat), cap : Nat]]
    BY <1>1 DEF ClientTyped
  <2>2. hold'[c] = early[c] /\ early'[c] = <<>> /\ (d # c => hold'[d] = hold[d] /\ early'[d] = early[d])
    BY <2>1 DEF registerTurnEvents
  <2>3. chan'[d].buf = chan[d].buf
    <3> DEFINE k == IF Len(early[c]) + 1 > Capacity THEN Len(early[c]) + 1 ELSE Capacity
    <3>1. chan' = [chan EXCEPT ![c].cap = k]
      BY DEF registerTurnEvents
    <3> HIDE DEF k
    <3> QED
      BY <2>1, <3>1
  <2>4. d # c => step'[d] = step[d]
    BY <2>1 DEF registerTurnEvents, At
  <2>5. d \in turns' => d \in turns \/ d = c
    BY DEF registerTurnEvents
  <2> QED
    BY <2>2, <2>3, <2>4, <2>5
<1>4. CASE d # c
  BY <1>1, <1>2, <1>3, <1>4, OrderKept DEF PlacesSame, HandsSame, Sends, UnderWay
<1>5. CASE d = c
  <2>1. got[c] = <<>> /\ chan[c].buf = <<>> /\ hold[c] = <<>> /\ \A t \in Servers : ~Sends(t, c)
    BY <1>1 DEF CallerInv, Fresh, Unregistered, NotCalled
  <2>2. UnderWay(c)
    BY <1>1 DEF UnderWay, NotCalled, Through
  <2>3. c \notin cut \cup overtaken /\ ~panicked => InRow(c)'
    <3> SUFFICES ASSUME c \notin cut \cup overtaken, ~panicked PROVE InRow(c)'
      OBVIOUS
    <3>1. Row(got[c], chan[c].buf, hold[c], early[c])
      BY <1>1, <1>5, <2>2 DEF OrderOf, InRow
    <3>2. Len(<<>>) = 0 /\ 0 + 0 = 0 /\ 0 + 0 + 0 = 0
      OBVIOUS
    <3>3. Run(early[c], 0)
      BY <2>1, <3>1, <3>2 DEF Row
    <3>4. Row(got[c], chan[c].buf, early[c], <<>>)
      BY <2>1, <3>2, <3>3 DEF Row, Run
    <3>5. Row(got'[c], chan'[c].buf, hold'[c], early'[c])
      BY <1>2, <1>3, <1>5, <3>4
    <3> QED
      BY <1>2, <2>1, <3>5 DEF InRow, Sends
  <2>4. Run(got'[c], 0)
    BY <1>2, <2>1 DEF Run
  <2> QED
    BY <1>2, <1>3, <1>5, <2>3, <2>4 DEF OrderOf
<1> QED
  BY <1>4, <1>5

\* A kept event is pushed: the first of the kept ones is the next of the channel.
LEMMA PushOrder ==
  ASSUME ClientInv, OrderInv, ~panicked, NEW d \in Callers, NEW c \in Callers, Push(c)
  PROVE  OrderOf(d)'
<1>1. ClientTyped /\ OrderOf(d) /\ hold[c] # <<>>
  BY DEF ClientInv, OrderInv, Push
<1>2. UNCHANGED <<got, early, reader, turns, step, cut, overtaken>>
  BY DEF Push, tables
<1>3. hold[c] \in Seq(Nat) /\ got[c] \in Seq(Nat) /\ chan[c].buf \in Seq(Nat) /\ early[c] \in Seq(Nat)
  BY <1>1 DEF ClientTyped
<1>4. PICK v \in Nat : v = Head(hold[c])
  BY <1>1, <1>3
<1>5. hold'[c] = Tail(hold[c]) /\ (d # c => hold'[d] = hold[d])
  BY <1>1 DEF Push, ClientTyped
<1>6. (d # c => chan'[d] = chan[d]) /\ (~panicked' => chan'[c].buf = Append(chan[c].buf, v))
  <2>1. Sent(c, v, TRUE)
    BY <1>4 DEF Push
  <2> QED
    BY <1>1, <2>1, SentTo
<1>7. CASE d # c
  BY <1>1, <1>2, <1>5, <1>6, <1>7, OrderKept DEF PlacesSame, HandsSame, Sends, UnderWay
<1>8. CASE d = c
  <2>1. UnderWay(c) /\ c \notin cut \cup overtaken /\ ~panicked' => InRow(c)'
    <3> SUFFICES ASSUME UnderWay(c), c \notin cut \cup overtaken, ~panicked' PROVE InRow(c)'
      OBVIOUS
    <3>1. InRow(c)
      BY <1>1, <1>8 DEF OrderOf
    <3>2. PICK k \in Nat, l \in Nat, m \in Nat : k = Len(got[c]) /\ l = Len(chan[c].buf) /\ m = Len(hold[c])
      BY <1>1, Lengths
    <3>3. Run(got[c], 0) /\ Run(chan[c].buf, k) /\ Run(hold[c], k + l) /\ Run(early[c], k + l + m)
      BY <3>1, <3>2 DEF InRow, Row
    <3>4. k + l \in Nat
      OBVIOUS
    <3>5. v = k + l + 1 /\ Run(Tail(hold[c]), k + l + 1) /\ Len(Tail(hold[c])) = m - 1
      BY <1>1, <1>3, <1>4, <3>2, <3>3, <3>4, RunTail
    <3>6. Run(Append(chan[c].buf, v), k) /\ Len(Append(chan[c].buf, v)) = l + 1
      BY <1>3, <3>2, <3>3, <3>5, RunAppend
    <3>7. Len(chan'[c].buf) = l + 1 /\ Len(hold'[c]) = m - 1 /\ k + (l + 1) = k + l + 1 /\ k + (l + 1) + (m - 1) = k + l + m
      BY <1>5, <1>6, <3>5, <3>6
    <3>8. Row(got'[c], chan'[c].buf, hold'[c], early'[c])
      BY <1>2, <1>5, <1>6, <3>2, <3>3, <3>5, <3>6, <3>7 DEF Row
    <3>9. \A t \in Servers : Sends(t, c)' => early'[c] = <<>> /\ reader'[t].ev = k + (l + 1) + (m - 1) + 1
      BY <1>2, <3>1, <3>2, <3>7 DEF InRow, Sends
    <3> QED
      BY <1>2, <3>2, <3>7, <3>8, <3>9 DEF InRow
  <2> QED
    BY <1>1, <1>2, <1>8, <2>1 DEF OrderOf, UnderWay
<1> QED
  BY <1>7, <1>8

\* The reader's event is sent: nothing was kept behind it, and unless it overtook
\* the kept ones it is the next of the channel.
LEMMA SendOrder ==
  ASSUME ClientInv, OrderInv, ~panicked, NEW d \in Callers, NEW s \in Servers, ReaderSend(s)
  PROVE  OrderOf(d)'
<1>1. ClientTyped /\ OrderOf(d) /\ reader[s].of \in Callers /\ reader[s].ev \in Nat /\ reader[s].do = "send"
  BY DEF ClientInv, OrderInv, ClientTyped, ReaderSend
<1>2. PICK c \in Callers : c = reader[s].of
  BY <1>1
<1>3. PICK v \in Nat : v = reader[s].ev
  BY <1>1
<1>4. UNCHANGED <<got, early, hold, turns, step, cut>> /\ overtaken' = IF hold[c] = <<>> THEN overtaken ELSE overtaken \cup {c}
  BY <1>2 DEF ReaderSend, tables, steps
<1>5. (d # c => chan'[d] = chan[d]) /\ (~panicked' => chan'[c].buf = Append(chan[c].buf, v))
  <2>1. Sent(c, v, TRUE)
    BY <1>2, <1>3 DEF ReaderSend
  <2> QED
    BY <1>1, <2>1, SentTo
<1>6. (d # c => HandsSame(d)) /\ ~Sends(s, c)' /\ \A t \in Servers : t # s => reader'[t] = reader[t]
  <2> DEFINE x == IF reader[s].ev = LastEvent THEN [reader[s] EXCEPT !.do = "close"] ELSE Scan
  <2>1. reader' = [reader EXCEPT ![s] = x] /\ x.do # "send" /\ reader \in [Servers -> ReaderStates]
    <3>1. reader \in [Servers -> ReaderStates]
      BY <1>1 DEF ClientTyped, ReaderStates
    <3>2. reader' = [reader EXCEPT ![s] = x]
      BY DEF ReaderSend
    <3>3. x.do # "send"
      BY <3>1 DEF ReaderStates, Scan
    <3> QED
      BY <3>1, <3>2, <3>3
  <2> HIDE DEF x
  <2> QED
    BY <1>2, <2>1 DEF HandsSame, Sends
<1>7. CASE d # c
  BY <1>1, <1>4, <1>5, <1>6, <1>7, OrderKept DEF PlacesSame, UnderWay
<1>8. CASE d = c
  <2>1. UnderWay(c) /\ c \notin cut \cup overtaken' /\ ~panicked' => InRow(c)'
    <3> SUFFICES ASSUME UnderWay(c), c \notin cut \cup overtaken', ~panicked' PROVE InRow(c)'
      OBVIOUS
    <3>0. hold[c] = <<>> /\ c \notin overtaken
      BY <1>4
    <3>1. InRow(c)
      BY <1>1, <1>8, <3>0 DEF OrderOf
    <3>2. got[c] \in Seq(Nat) /\ chan[c].buf \in Seq(Nat)
      BY <1>1 DEF ClientTyped
    <3>3. PICK k \in Nat, l \in Nat : k = Len(got[c]) /\ l = Len(chan[c].buf)
      BY <1>1, Lengths
    <3>4. Sends(s, c) /\ Len(hold[c]) = 0
      BY <1>1, <1>2, <3>0 DEF Sends
    <3>5. early[c] = <<>> /\ v = k + l + 0 + 1 /\ Run(got[c], 0) /\ Run(chan[c].buf, k)
      BY <1>3, <3>1, <3>3, <3>4 DEF InRow, Row
    <3>6. Run(Append(chan[c].buf, v), k) /\ Len(Append(chan[c].buf, v)) = l + 1
      <4>1. v = k + Len(chan[c].buf) + 1
        BY <3>3, <3>5
      <4> QED
        BY <3>2, <3>3, <3>5, <4>1, RunAppend
    <3>7. Row(got'[c], chan'[c].buf, hold'[c], early'[c])
      <4>1. Run(got'[c], 0) /\ Run(chan'[c].buf, Len(got'[c]))
        BY <1>4, <1>5, <3>3, <3>5, <3>6
      <4>2. hold'[c] = <<>> /\ early'[c] = <<>>
        BY <1>4, <3>0, <3>5
      <4> QED
        BY <4>1, <4>2 DEF Row, Run
    <3>8. \A t \in Servers : ~Sends(t, c)'
      <4>1. \A t \in Servers : t # s => ~Sends(t, c)
        BY <3>4 DEF ClientInv, CallerInv, OwnWire
      <4> QED
        BY <1>6, <4>1 DEF Sends
    <3> QED
      BY <3>7, <3>8 DEF InRow
  <2> QED
    BY <1>1, <1>4, <1>8, <2>1 DEF OrderOf, UnderWay
<1> QED
  BY <1>7, <1>8

\* The step sees the first event of the channel.
LEMMA DrainOrder ==
  ASSUME ClientInv, OrderInv, ~panicked, NEW d \in Callers, NEW c \in Callers, Drain(c)
  PROVE  OrderOf(d)'
<1>1. ClientTyped /\ OrderOf(d) /\ step[c] = "drain"
  BY DEF ClientInv, OrderInv, Drain
<1>2. UNCHANGED <<early, hold, reader, turns, cut, overtaken, panicked>>
  BY DEF Drain, tables
<1>3. UnderWay(c) /\ (UnderWay(d)' => UnderWay(d))
  <2>1. step \in [Callers -> CallerLabels] /\ (step' = step \/ step' = [step EXCEPT ![c] = "leave"])
    BY <1>1 DEF ClientTyped, Drain, At
  <2> QED
    BY <1>1, <2>1 DEF UnderWay, NotCalled, Through
<1>4. CASE chan[c].buf = <<>>
  <2>1. UNCHANGED <<got, chan>>
    BY <1>4 DEF Drain
  <2> QED
    BY <1>1, <1>2, <1>3, <2>1, OrderKept DEF PlacesSame, HandsSame, Sends
<1>5. CASE chan[c].buf # <<>>
  <2>1. chan[c].buf \in Seq(Nat) /\ got[c] \in Seq(Nat) /\ hold[c] \in Seq(Nat)
    BY <1>1 DEF ClientTyped
  <2>2. PICK v \in Nat : v = Head(chan[c].buf)
    BY <1>5, <2>1
  <2>3. got'[c] = Append(got[c], v) /\ chan'[c].buf = Tail(chan[c].buf) /\ (d # c => got'[d] = got[d] /\ chan'[d] = chan[d])
    <3>1. got' = [got EXCEPT ![c] = Append(got[c], v)] /\ chan' = [chan EXCEPT ![c].buf = Tail(@)]
      BY <1>5, <2>2 DEF Drain
    <3>2. got \in [Callers -> Seq(Nat)] /\ chan \in [Callers -> [buf : Seq(Nat), cap : Nat]]
      BY <1>1 DEF ClientTyped
    <3> QED
      BY <3>1, <3>2
  <2>4. CASE d # c
    BY <1>1, <1>2, <1>3, <2>3, <2>4, OrderKept DEF PlacesSame, HandsSame, Sends
  <2>5. CASE d = c
    <3>1. ASSUME c \notin cut \cup overtaken PROVE Run(got'[c], 0) /\ InRow(c)'
      <4>1. InRow(c)
        BY <1>1, <1>3, <2>5, <3>1 DEF OrderOf
      <4>2. PICK k \in Nat, l \in Nat, m \in Nat : k = Len(got[c]) /\ l = Len(chan[c].buf) /\ m = Len(hold[c])
        BY <1>1, Lengths
      <4>3. Run(got[c], 0) /\ Run(chan[c].buf, k) /\ Run(hold[c], k + l) /\ Run(early[c], k + l + m)
        BY <4>1, <4>2 DEF InRow, Row
      <4>4. v = k + 1 /\ Run(Tail(chan[c].buf), k + 1) /\ Len(Tail(chan[c].buf)) = l - 1
        BY <1>5, <2>1, <2>2, <4>2, <4>3, RunTail
      <4>5. Run(Append(got[c], v), 0) /\ Len(Append(got[c], v)) = k + 1
        <5>1. v = 0 + Len(got[c]) + 1 /\ 0 \in Nat
          BY <4>2, <4>4
        <5> QED
          BY <2>1, <4>2, <4>3, <5>1, RunAppend
      <4>6. Len(got'[c]) = k + 1 /\ Len(chan'[c].buf) = l - 1 /\ (k + 1) + (l - 1) = k + l /\ (k + 1) + (l - 1) + m = k + l + m
        BY <2>3, <4>4, <4>5
      <4>7. Row(got'[c], chan'[c].buf, hold'[c], early'[c])
        BY <1>2, <2>3, <4>2, <4>3, <4>4, <4>5, <4>6 DEF Row
      <4>8. \A t \in Servers : Sends(t, c)' => early'[c] = <<>> /\ reader'[t].ev = (k + 1) + (l - 1) + m + 1
        BY <1>2, <4>1, <4>2, <4>6 DEF InRow, Sends
      <4> QED
        BY <1>2, <2>3, <4>2, <4>5, <4>6, <4>7, <4>8 DEF InRow
    <3> QED
      BY <1>1, <1>2, <2>5, <3>1 DEF OrderOf
  <2> QED
    BY <2>4, <2>5
<1> QED
  BY <1>4, <1>5

\* The reader takes the next event from the wire.
LEMMA NotificationOrder ==
  ASSUME ClientInv, OrderInv, ~panicked, NEW d \in Callers, NEW s \in Servers, handleNotification(s)
  PROVE  OrderOf(d)'
<1>0. /\ ClientTyped /\ out[s] # <<>> /\ out[s] \in Seq(Lines) /\ Line(s) \in Lines /\ Line(s).kind = "event" /\ reader[s] = Scan
      /\ Head(out[s]) = Line(s) /\ OrderOf(d)
  <2>1. ClientTyped /\ out[s] \in Seq(Lines) /\ OrderOf(d)
    BY DEF ClientInv, OrderInv, ClientTyped
  <2>2. out[s] # <<>> /\ Line(s).kind = "event" /\ reader[s] = Scan
    BY DEF handleNotification, Reads
  <2>3. Line(s) \in Lines /\ Head(out[s]) = Line(s)
    BY <2>1, <2>2 DEF Line
  <2> QED
    BY <2>1, <2>2, <2>3
<1>1. PICK c \in Callers : c = Line(s).of
  BY <1>0 DEF Lines
<1>v. PICK v \in Nat : v = Line(s).ev
  BY <1>0 DEF Lines
<1> DEFINE x == [do |-> "send", of |-> c, ev |-> v]
<1>2. EventOf(Head(out[s]), c) /\ Head(out[s]).ev = v
  BY <1>0, <1>1, <1>v DEF EventOf
<1>3. CallerInv(c) /\ asks[c] = s
  <2>1. CallerInv(c)
    BY DEF ClientInv
  <2>2. 1 \in 1 .. Len(out[s]) /\ out[s][1] = Head(out[s])
    BY <1>0
  <2>3. asks[c] = s
    BY <1>2, <2>1, <2>2 DEF CallerInv, OwnWire
  <2> QED
    BY <2>1, <2>3
<1>4. \/ /\ c \in turns /\ turns' \subseteq turns /\ reader' = [reader EXCEPT ![s] = x] /\ early' = early
      \/ /\ c \notin turns /\ early' = [early EXCEPT ![c] = Append(@, v)] /\ UNCHANGED <<turns, reader>>
  BY <1>1, <1>v DEF handleNotification
<1>5. x \in ReaderStates /\ x.do = "send" /\ x.of = c /\ x.ev = v /\ (\A e \in Callers : ~Sends(s, e))
  BY <1>0 DEF ReaderStates, Sends, Scan
<1> HIDE DEF x
<1>6. UNCHANGED <<got, hold, step, chan, cut, overtaken, panicked>>
  BY DEF handleNotification, chans, steps
<1>7. \A t \in Servers : ~Sends(t, c)
  BY <1>3, <1>5 DEF CallerInv, OwnWire
<1>8. CASE d # c
  <2>1. HandsSame(d)
    <3>1. CASE reader' = reader
      BY <3>1 DEF HandsSame, Sends
    <3>2. CASE reader' = [reader EXCEPT ![s] = x]
      BY <1>0, <1>5, <1>8, <3>2, ReaderTyped
    <3> QED
      BY <1>4, <3>1, <3>2
  <2>2. PlacesSame(d)
    BY <1>0, <1>4, <1>6, <1>8 DEF PlacesSame, ClientTyped
  <2>3. d \in turns' => d \in turns
    BY <1>4
  <2> QED
    BY <1>0, <1>6, <2>1, <2>2, <2>3, OrderKept DEF UnderWay
<1>9. CASE d = c
  <2>1. c \in turns' => early'[c] = <<>>
    BY <1>0, <1>4, <1>9 DEF OrderOf
  <2>2. UnderWay(c) /\ c \notin cut \cup overtaken /\ ~panicked => InRow(c)'
    <3> SUFFICES ASSUME UnderWay(c), c \notin cut \cup overtaken PROVE InRow(c)'
      OBVIOUS
    <3>1. InRow(c)
      BY <1>0, <1>9 DEF OrderOf
    <3>2. got[c] \in Seq(Nat) /\ chan[c].buf \in Seq(Nat) /\ hold[c] \in Seq(Nat) /\ early[c] \in Seq(Nat) /\ sent[c] \in Nat
      BY <1>0 DEF ClientTyped
    <3>3. PICK r \in 0 .. sent[c] : OnWire(out[s], c, r, sent[c]) /\ Kept(c, r)
      BY <1>3 DEF CallerInv, Spread
    <3>4. v = r + 1 /\ r \in Nat
      BY <1>0, <1>2, <3>2, <3>3, WireHead
    <3>5. InHand(c) = {}
      BY <1>7 DEF InHand, Sends
    <3>6. ToSet(got[c]) \cup ToSet(chan[c].buf) \cup ToSet(hold[c]) \cup ToSet(early[c]) = 1 .. r
      BY <3>3, <3>5 DEF Kept
    <3>7. r = Len(got[c]) + Len(chan[c].buf) + Len(hold[c]) + Len(early[c])
      BY <3>1, <3>2, <3>4, <3>6, RowLength DEF InRow
    <3>8. PICK k \in Nat, l \in Nat, m \in Nat : k = Len(got[c]) /\ l = Len(chan[c].buf) /\ m = Len(hold[c])
      BY <1>0, Lengths
    <3>9. Run(got[c], 0) /\ Run(chan[c].buf, k) /\ Run(hold[c], k + l) /\ Run(early[c], k + l + m)
      BY <3>1, <3>8 DEF InRow, Row
    <3>10. CASE c \in turns
      <4>1. early[c] = <<>> /\ early' = early /\ Len(early[c]) = 0
        BY <1>0, <1>4, <1>9, <3>10 DEF OrderOf
      <4>2. v = k + l + m + 1
        BY <3>4, <3>7, <3>8, <4>1
      <4>3. \A t \in Servers : Sends(t, c)' => reader'[t].ev = v
        BY <1>0, <1>4, <1>5, <1>7, <3>10 DEF Sends, ClientTyped
      <4> QED
        BY <1>6, <3>1, <3>8, <4>1, <4>2, <4>3 DEF InRow
    <3>11. CASE c \notin turns
      <4>1. early'[c] = Append(early[c], v) /\ reader' = reader
        BY <1>0, <1>4, <3>11 DEF ClientTyped
      <4>2. k + l + m \in Nat /\ v = (k + l + m) + Len(early[c]) + 1
        <5>1. PICK n \in Nat : n = Len(early[c])
          BY <3>2
        <5>2. r = k + l + m + n
          BY <3>7, <3>8, <5>1
        <5> QED
          BY <3>4, <5>1, <5>2
      <4>3. Run(early'[c], k + l + m)
        BY <3>2, <3>9, <4>1, <4>2, RunAppend
      <4>4. Row(got'[c], chan'[c].buf, hold'[c], early'[c])
        BY <1>6, <3>8, <3>9, <4>3 DEF Row
      <4> QED
        BY <1>7, <4>1, <4>4 DEF InRow, Sends
    <3> QED
      BY <3>10, <3>11
  <2>3. c \notin cut \cup overtaken => Run(got'[c], 0)
    BY <1>0, <1>6, <1>9 DEF OrderOf
  <2> QED
    BY <1>6, <1>9, <2>1, <2>2, <2>3 DEF OrderOf, UnderWay
<1> QED
  BY <1>8, <1>9

LEMMA OrderInitInv == ClientInit => OrderInv
<1> SUFFICES ASSUME ClientInit PROVE OrderInv
  OBVIOUS
<1>1. EndOf /\ TableOf
  BY DEF ClientInit, EndOf, TableOf, Scan
<1>2. ASSUME NEW c \in Callers PROVE OrderOf(c)
  <2>1. c \notin turns /\ got[c] = <<>> /\ ~UnderWay(c)
    BY DEF ClientInit, UnderWay, NotCalled
  <2> QED
    BY <2>1 DEF OrderOf, Run
<1> QED
  BY <1>1, <1>2 DEF OrderInv

LEMMA OrderNextInv == ClientInv /\ OrderInv /\ [ClientNext]_clientVars => OrderInv'
<1> SUFFICES ASSUME ClientInv, OrderInv, [ClientNext]_clientVars, NEW d \in Callers PROVE OrderOf(d)'
  BY EndOfNext, TableOfNext DEF OrderInv
<1>1. CASE UNCHANGED clientVars
  BY <1>1, QuietOrder
<1>2. ASSUME ~panicked, NEW c \in Callers,
             \/ Look(c) \/ Spawn(c) \/ Call(c) \/ CallStopped(c) \/ TakeResponse(c)
             \/ Answer(c) \/ Emit(c)
             \/ registerTurnEvents(c) \/ Push(c) \/ Pushed(c) \/ Drain(c) \/ DrainStopped(c)
             \/ CloseClient(c) \/ CloseChannels(c)
      PROVE  OrderOf(d)'
  BY <1>2, QuietOrder, CutOrder, CallOrder, RegisterOrder, PushOrder, DrainOrder
<1>3. ASSUME ~panicked, NEW s \in Servers,
             \/ ServerDies(s) \/ deliverResponse(s) \/ handleNotification(s)
             \/ ReaderSend(s) \/ ReaderClose(s) \/ failPending(s)
      PROVE  OrderOf(d)'
  BY <1>3, QuietOrder, NotificationOrder, SendOrder
<1> QED
  BY <1>1, <1>2, <1>3 DEF ClientNext

LEMMA ClientInvSafe == ClientInv /\ OrderInv => ClientTypeOK /\ EventsAccounted /\ SeenInOrder /\ WaitingIsAnswerable
<1> SUFFICES ASSUME ClientInv, OrderInv PROVE ClientTypeOK /\ EventsAccounted /\ SeenInOrder /\ WaitingIsAnswerable
  OBVIOUS
<1>1. ClientTyped /\ \A c \in Callers : CallerInv(c)
  BY DEF ClientInv
<1>2. ClientTypeOK
  BY <1>1 DEF ClientTypeOK, ClientTyped, CallerInv
<1>3. EventsAccounted
  BY Accounted DEF EventsAccounted
<1>4. WaitingIsAnswerable
  BY <1>1 DEF WaitingIsAnswerable, CallerInv, CallOf, OrderInv, TableOf
<1>5. SeenInOrder
  <2> SUFFICES ASSUME NEW c \in Callers, c \notin cut \cup overtaken, NEW i \in DOMAIN got[c] PROVE got[c][i] = i
    BY DEF SeenInOrder
  <2>1. Run(got[c], 0) /\ got[c] \in Seq(Nat)
    BY <1>1 DEF OrderInv, OrderOf, ClientTyped
  <2>2. i \in 1 .. Len(got[c])
    BY <2>1
  <2>3. got[c][i] = 0 + i
    BY <2>1, <2>2 DEF Run
  <2> QED
    BY <2>2, <2>3
<1> QED
  BY <1>2, <1>3, <1>4, <1>5

-----------------------------------------------------------------------------
(* What is promised of the client.                                          *)

\* A response is put into an empty channel: its call is in the table.
LEMMA OneResponseStep ==
  ASSUME ClientInv, [ClientNext]_clientVars, NEW c \in Callers, resp[c] # "none"
  PROVE  resp'[c] \in {resp[c], "none"}
<1>1. c \notin pending /\ resp \in [Callers -> {"none", "result", "closed"}]
  BY DEF ClientInv, ClientTyped, CallerInv, CallOf
<1>2. CASE \E d \in Callers : TakeResponse(d)
  BY <1>1, <1>2 DEF TakeResponse
<1>3. CASE \E s \in Servers : deliverResponse(s)
  <2>1. PICK s \in Servers : deliverResponse(s)
    BY <1>3
  <2>2. resp' = resp \/ \E d \in pending : resp' = [resp EXCEPT ![d] = "result"]
    BY <2>1 DEF deliverResponse
  <2> QED
    BY <1>1, <2>2
<1>4. CASE \E s \in Servers : failPending(s)
  BY <1>1, <1>4 DEF failPending
<1>5. CASE UNCHANGED resp
  BY <1>5
<1>6. ASSUME NEW d \in Callers,
             \/ Look(d) \/ Spawn(d) \/ Call(d) \/ CallStopped(d)
             \/ Answer(d) \/ Emit(d)
             \/ registerTurnEvents(d) \/ Push(d) \/ Pushed(d) \/ Drain(d) \/ DrainStopped(d)
             \/ CloseClient(d) \/ CloseChannels(d)
      PROVE  UNCHANGED resp
  BY <1>6 DEF chans, Look, Spawn, Call, CallStopped, Answer, Emit, registerTurnEvents, Push, Pushed, Drain, DrainStopped,
     CloseClient, CloseChannels
<1>7. ASSUME NEW s \in Servers, ServerDies(s) \/ handleNotification(s) \/ ReaderSend(s) \/ ReaderClose(s)
      PROVE  UNCHANGED resp
  BY <1>7 DEF chans, ServerDies, handleNotification, ReaderSend, ReaderClose
<1>8. UNCHANGED clientVars => UNCHANGED resp
  BY DEF clientVars, chans
<1> QED
  BY <1>2, <1>3, <1>4, <1>5, <1>6, <1>7, <1>8 DEF ClientNext

ClientSpec == ClientInit /\ [][ClientNext]_clientVars

\* The events of a turn that the reader took from the server are each in one
\* place as long as the step is about its turn, and the step sees the first of
\* them in their order, unless the client was closed or started anew under it or
\* the reader sent an event before the kept ones were pushed.  A call that waits
\* can be answered, unless a second start took its table or the reader gave up on
\* an over-long line before it, and a response channel gets one response: for
\* every number of steps, servers and events, in every order of responses,
\* events, registrations and ends.
THEOREM ClientIsSafe == ClientSpec => ClientSafe
<1>1. ClientInv /\ [ClientNext]_clientVars => [\A c \in Callers : resp[c] # "none" => resp'[c] \in {resp[c], "none"}]_clientVars
  BY OneResponseStep
<1> QED
  BY <1>1, ClientInitInv, ClientNextInv, OrderInitInv, OrderNextInv, ClientInvSafe, PTL DEF ClientSpec, ClientSafe, OneResponse
=============================================================================
