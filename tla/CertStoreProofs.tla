-------------------------- MODULE CertStoreProofs ---------------------------
(***************************************************************************)
(* Proofs about CertStore, for any lifetime of a certificate, any margins  *)
(* and any set of configurations.  The properties rest on one invariant:   *)
(* the updater is at one domain at a time, and in the round it is in it    *)
(* has left Root with a certificate that needed no renewal then.           *)
(***************************************************************************)
EXTENDS CertStore, TLAPS

\* One request at a time, of the domain the updater is at.
OneRequest == \A d \in Domains : req[d] # "idle" => updater = d

\* A process that does not run has no task and nothing in memory.
OnlyRunning == server # "running" =>
  /\ updater = "none"
  /\ certs = [d \in Domains |-> None]
  /\ lastOk = None

\* The loop over the domains is past Root only with Root renewed; since then
\* no more days have passed than since the round began.
RootFirst == updater = Wildcard => certs[Root] + age >= RenewBefore

\* What store_cert writes is the certificate the CA just issued.
SavesNew == \A d \in Domains : req[d] \in {"save", "write"} => certs[d] = Validity

\* A file of CERTS_DIR holds the certificate of the domain it is named after.
FilesNamed == \A f \in Files, d \in Domains : disk[f].domain = d => f = FileName(d)

\* DiskBacksMemory, in terms of the one file that can hold d.
FileBacks(d) == disk[FileName(d)] = Stored(d, certs[d])

Backed ==
  server = "running" =>
    \A d \in Domains \ unsaved :
      (req[d] \notin {"save", "write"} /\ certs[d] >= LoadMin) => FileBacks(d)

Inv == /\ TypeOK
       /\ OneRequest /\ OnlyRunning /\ RootFirst /\ SavesNew
       /\ FilesNamed /\ Backed
       /\ ChallengeStands /\ MarginKept

-----------------------------------------------------------------------------
(* Operators                                                               *)

Tokens == Domains \cup {"old"}

\* Values of an ended request get old where they are; the others stay.
LEMMA OldFacts ==
  ASSUME NEW t \in Seq(Tokens), NEW ds \in SUBSET Domains
  PROVE  /\ Old(t, ds) \in Seq(Tokens)
         /\ Len(Old(t, ds)) = Len(t)
         /\ DOMAIN Old(t, ds) = DOMAIN t
         /\ \A i \in DOMAIN t : t[i] \notin ds => Old(t, ds)[i] = t[i]
<1>1. Len(t) \in Nat /\ DOMAIN t = 1 .. Len(t) /\ \A i \in 1 .. Len(t) : t[i] \in Tokens
  OBVIOUS
<1> QED
  BY <1>1 DEF Old, Tokens

\* The TXT record after one update: a value was replaced or added.
LEMMA RecordFacts ==
  ASSUME NEW d \in Domains, NEW t \in Put(d) \cup Post(d),
         txt \in Seq(Tokens), Len(txt) <= MaxRecords
  PROVE  /\ t \in Seq(Tokens) /\ Len(t) <= MaxRecords
         /\ \E i \in DOMAIN t : t[i] = d
<1>1. /\ Len(txt) \in Nat /\ DOMAIN txt = 1 .. Len(txt) /\ MaxRecords \in Nat
      /\ d \in Tokens
  BY CertAssumption DEF Tokens
<1>2. ASSUME NEW i \in DOMAIN txt
      PROVE  LET u == [txt EXCEPT ![i] = d]
             IN  u \in Seq(Tokens) /\ Len(u) = Len(txt) /\ i \in DOMAIN u /\ u[i] = d
  BY <1>1
<1>3. ASSUME NEW u \in Seq(Tokens), Len(u) = Len(txt), Len(txt) < MaxRecords
      PROVE  /\ Append(u, d) \in Seq(Tokens) /\ Len(Append(u, d)) <= MaxRecords
             /\ \E i \in DOMAIN Append(u, d) : Append(u, d)[i] = d
  <2>1. Append(u, d) \in Seq(Tokens) /\ Len(Append(u, d)) = Len(u) + 1
        /\ Append(u, d)[Len(u) + 1] = d
    BY <1>1
  <2>2. DOMAIN Append(u, d) = 1 .. Len(u) + 1
    BY <2>1
  <2> QED
    BY <1>1, <1>3, <2>1, <2>2
<1>4. CASE t \in Put(d)
  BY <1>2, <1>4 DEF Put
<1>5. CASE t \in Post(d)
  <2>1. PICK u \in Put(d) \cup {txt} : t = Append(u, d) /\ Len(txt) < MaxRecords
    BY <1>5 DEF Post
  <2>2. u \in Seq(Tokens) /\ Len(u) = Len(txt)
    BY <1>2, <2>1 DEF Put
  <2> QED
    BY <1>3, <2>1, <2>2
<1> QED
  BY <1>4, <1>5

\* The two domains of the store, and the file of each.
LEMMA DomainFacts ==
  /\ Domains = {Root, Wildcard} /\ Root # Wildcard
  /\ \A d \in Domains : d \notin {"none", "due", "asleep", "", "old"}
  /\ \A d \in Domains : FileName(d) \in Files
  /\ \A d, e \in Domains : FileName(d) = FileName(e) => d = e
  /\ \A f \in Files : \E d \in Domains : f = FileName(d)
BY DEF Domains, Root, Wildcard, FileName, Files

\* A file holds the certificate of at most one domain, so load has no choice.
LEMMA LoadedFacts ==
  ASSUME NEW d \in Domains, FilesNamed
  PROVE  Loaded(d) = IF disk[FileName(d)].domain = d /\ disk[FileName(d)].left >= LoadMin
                     THEN disk[FileName(d)].left ELSE None
<1> DEFINE good == {f \in Files : disk[f].domain = d /\ disk[f].left >= LoadMin}
<1>1. \A f \in good : f = FileName(d)
  BY DEF FilesNamed
<1>2. FileName(d) \in Files
  BY DomainFacts
<1>3. CASE FileName(d) \in good
  <2>1. good # {} /\ (CHOOSE f \in good : TRUE) = FileName(d)
    BY <1>1, <1>3
  <2> QED
    BY <1>3, <2>1 DEF Loaded
<1>4. CASE FileName(d) \notin good
  <2>1. good = {}
    BY <1>1, <1>4
  <2> QED
    BY <1>2, <1>4, <2>1 DEF Loaded
<1> QED
  BY <1>3, <1>4

\* Every certificate in memory is a number, of days or None.
LEMMA CertFacts ==
  ASSUME TypeOK
  PROVE  \A d \in Domains : /\ certs[d] \in Int
                            /\ ~ShouldRenewCert(d) => certs[d] >= RenewBefore
<1> TAKE d \in Domains
<1>1. certs[d] \in {None} \cup 0 .. Validity
  BY DEF TypeOK
<1> QED
  BY <1>1, CertAssumption DEF ShouldRenewCert, None

\* What a typed file can hold.
LEMMA ContentFacts ==
  ASSUME NEW f \in Files, disk \in [Files -> Contents]
  PROVE  /\ disk[f] \in Contents
         /\ disk[f].domain \in Domains => /\ disk[f] # Torn /\ disk[f] # Absent
                                          /\ disk[f].left \in 0 .. Validity
                                          /\ disk[f] = Stored(disk[f].domain, disk[f].left)
         /\ disk[f].domain \notin Domains => disk[f] \in {Torn, Absent}
<1>1. disk[f] \in Contents
  OBVIOUS
<1>2. CASE disk[f] \in {Torn, Absent}
  <2>1. Torn.domain = "" /\ Absent.domain = "" /\ "" \notin Domains
    BY DEF Torn, Absent, Domains, Root, Wildcard
  <2> QED
    BY <1>1, <1>2, <2>1
<1>3. CASE disk[f] \in [domain : Domains, left : 0 .. Validity]
  <2>1. PICK d \in Domains, n \in 0 .. Validity : disk[f] = [domain |-> d, left |-> n]
    BY <1>3
  <2>2. disk[f].domain = d /\ disk[f].left = n
    BY <2>1
  <2>3. Torn.domain = "" /\ Absent.domain = "" /\ d # ""
    BY DEF Torn, Absent, Domains, Root, Wildcard
  <2> QED
    BY <2>1, <2>2, <2>3 DEF Contents, Stored
<1> QED
  BY <1>1, <1>2, <1>3 DEF Contents

-----------------------------------------------------------------------------
(* The invariant                                                           *)

\* Before the first start: no process, no files, and perhaps no directory.
LEMMA InitInv == Init => Inv
<1> SUFFICES ASSUME Init
             PROVE  Inv
  OBVIOUS
<1> USE CertAssumption DEF Init
<1>1. TypeOK
  <2>1. Absent \in Contents
    BY DEF Contents
  <2>2. txt \in Seq(Domains \cup {"old"}) /\ Len(txt) <= MaxRecords
    OBVIOUS
  <2> QED
    BY <2>1, <2>2 DEF TypeOK, None
<1>2. FilesNamed
  <2>1. \A f \in Files : disk[f].domain = ""
    BY DEF Absent
  <2> QED
    BY <2>1, DomainFacts DEF FilesNamed
<1> QED
  BY <1>1, <1>2, DomainFacts
     DEF Inv, OneRequest, OnlyRunning, RootFirst, SavesNew, Backed,
         ChallengeStands, MarginKept

\* Config::server: memory is what load finds in the files.
LEMMA StartStep == Inv /\ Start => Inv'
<1> SUFFICES ASSUME Inv, Start
             PROVE  Inv'
  OBVIOUS
<1> USE CertAssumption
<1>1. server' = "running"
  BY DEF Start, ConfigOk
<1>2. \A d \in Domains : req[d] = "idle"
  BY DomainFacts DEF Inv, TypeOK, OneRequest, OnlyRunning, Start
<1>3. \A d \in Domains : Loaded(d) \in {None} \cup 0 .. Validity
  <2> TAKE d \in Domains
  <2>1. FileName(d) \in Files
    BY DomainFacts
  <2>2. disk[FileName(d)].domain = d => disk[FileName(d)].left \in 0 .. Validity
    BY <2>1, ContentFacts DEF Inv, TypeOK
  <2> QED
    BY <2>2, LoadedFacts DEF Inv
<1>4. TypeOK'
  BY <1>1, <1>3 DEF Inv, TypeOK, Start, None
<1>5. Backed'
  <2> SUFFICES ASSUME NEW d \in Domains, certs'[d] >= LoadMin
               PROVE  FileBacks(d)'
    BY DEF Backed, Start
  <2>1. certs'[d] = Loaded(d) /\ Loaded(d) # None
    BY DEF Start, None
  <2>2. disk[FileName(d)].domain = d /\ disk[FileName(d)].left = Loaded(d)
    BY <2>1, LoadedFacts DEF Inv
  <2> QED
    BY <2>1, <2>2, ContentFacts, DomainFacts DEF Inv, TypeOK, Start, FileBacks
<1>6. (OneRequest /\ OnlyRunning /\ SavesNew)'
  BY <1>1, <1>2 DEF OneRequest, OnlyRunning, SavesNew, Start
<1>7. (FilesNamed /\ ChallengeStands)'
  BY DEF Inv, FilesNamed, ChallengeStands, Start
<1>8. (RootFirst /\ MarginKept)'
  BY DomainFacts DEF Inv, RootFirst, MarginKept, OnlyRunning, Start
<1> QED
  BY <1>4, <1>5, <1>6, <1>7, <1>8 DEF Inv

\* A start that fails leaves all as it is.
LEMMA StartFailsStep == Inv /\ StartFails => Inv'
<1> SUFFICES ASSUME Inv, StartFails
             PROVE  Inv'
  OBVIOUS
<1> QED
  BY DEF Inv, TypeOK, OneRequest, OnlyRunning, RootFirst, SavesNew, FilesNamed, Backed,
         ChallengeStands, MarginKept, StartFails, storeVars

\* A crash takes the memory, the task and its request, and leaves the files.
LEMMA CrashStep == Inv /\ Crash => Inv'
<1> SUFFICES ASSUME Inv, Crash
             PROVE  Inv'
  OBVIOUS
<1>1. txt' \in Seq(Tokens) /\ Len(txt') <= MaxRecords
  BY OldFacts DEF Inv, TypeOK, Crash, Tokens
<1>2. TypeOK'
  BY <1>1, CertAssumption DEF Inv, TypeOK, Crash, Tokens, None
<1>3. (OneRequest /\ OnlyRunning /\ RootFirst /\ SavesNew /\ Backed)'
  BY DomainFacts DEF OneRequest, OnlyRunning, RootFirst, SavesNew, Backed, Crash
<1>4. (FilesNamed /\ ChallengeStands /\ MarginKept)'
  BY DEF Inv, FilesNamed, ChallengeStands, MarginKept, Crash
<1> QED
  BY <1>2, <1>3, <1>4 DEF Inv

\* The operator touches only files that no start could use.
LEMMA RepairStep == Inv /\ Repair => Inv'
<1> SUFFICES ASSUME Inv, Repair
             PROVE  Inv'
  OBVIOUS
<1>1. TypeOK'
  BY DEF Inv, TypeOK, Repair, Contents
<1>2. FilesNamed'
  <2>1. \A f \in Files : disk'[f] = disk[f] \/ disk'[f].domain = ""
    BY DEF Repair, Absent
  <2> QED
    BY <2>1, DomainFacts DEF Inv, FilesNamed
<1>3. (OneRequest /\ OnlyRunning /\ RootFirst /\ SavesNew /\ Backed)'
  BY DEF Inv, OneRequest, OnlyRunning, RootFirst, SavesNew, Backed, Repair
<1>4. (ChallengeStands /\ MarginKept)'
  BY DEF Inv, ChallengeStands, MarginKept, Repair
<1> QED
  BY <1>1, <1>2, <1>3, <1>4 DEF Inv

\* While the updater is at d, only d has a request.
LEMMA AtDomain ==
  ASSUME Inv, NEW d \in Domains, updater = d \/ req[d] # "idle"
  PROVE  /\ updater = d /\ server = "running"
         /\ \A e \in Domains : e # d => req[e] = "idle"
BY DomainFacts DEF Inv, OneRequest, OnlyRunning

\* A day passes: every certificate, in memory and in the files, has one less,
\* and so has the time since the last good round.
LEMMA TickStep == Inv /\ Tick => Inv'
<1> SUFFICES ASSUME Inv, Tick
             PROVE  Inv'
  OBVIOUS
<1> USE CertAssumption
<1>1. \A d \in Domains : req[d] \notin {"save", "write"}
  <2>1. CASE updater \in {"none", "asleep"}
    BY <2>1, DomainFacts DEF Inv, TypeOK, OneRequest
  <2>2. CASE Waiting
    BY <2>2, AtDomain DEF Waiting
  <2> QED
    BY <2>1, <2>2 DEF Tick
<1>2. ASSUME NEW f \in Files
      PROVE  /\ disk'[f].domain = disk[f].domain
             /\ disk[f].domain \in Domains =>
                  disk'[f] = Stored(disk[f].domain, Older(disk[f].left))
             /\ disk'[f] \in Contents
  <2>1. disk'[f] = [disk[f] EXCEPT !.left = Older(@)]
    BY DEF Tick
  <2>2. ASSUME NEW a, NEW n, disk[f] = Stored(a, n)
        PROVE  disk'[f] = Stored(a, Older(n))
    BY <2>1, <2>2 DEF Stored
  <2>3. CASE disk[f].domain \in Domains
    <3>1. disk[f] = Stored(disk[f].domain, disk[f].left) /\ disk[f].left \in 0 .. Validity
      BY <2>3, ContentFacts DEF Inv, TypeOK
    <3>2. disk'[f] = Stored(disk[f].domain, Older(disk[f].left))
      BY <2>2, <3>1
    <3>3. Older(disk[f].left) \in 0 .. Validity
      BY <3>1 DEF Older
    <3> QED
      BY <2>3, <3>2, <3>3 DEF Stored, Contents
  <2>4. CASE disk[f].domain \notin Domains
    <3>1. disk[f] \in {Torn, Absent}
      BY <2>4, ContentFacts DEF Inv, TypeOK
    <3>2. disk'[f] = disk[f]
      <4>1. PICK n \in {-1, -2} : disk[f] = Stored("", n)
        BY <3>1 DEF Torn, Absent, None, Stored
      <4>2. Older(n) = n
        BY DEF Older
      <4>3. disk'[f] = Stored("", Older(n))
        BY <2>2, <4>1
      <4> QED
        BY <4>1, <4>2, <4>3
    <3> QED
      BY <2>4, <3>1, <3>2 DEF Contents
  <2> QED
    BY <2>3, <2>4
<1>3. \A d \in Domains : /\ certs'[d] = Older(certs[d])
                         /\ certs'[d] \in {None} \cup 0 .. Validity
  BY DEF Inv, TypeOK, Tick, Older, None
<1>4. TypeOK'
  <2>1. disk' \in [Files -> Contents]
    BY <1>2 DEF Tick
  <2>2. certs' \in [Domains -> {None} \cup 0 .. Validity]
    BY <1>3 DEF Tick
  <2>3. lastOk' \in {None} \cup 0 .. RenewBefore /\ age' \in 0 .. RenewBefore
    BY DEF Inv, TypeOK, Tick, None
  <2> QED
    BY <2>1, <2>2, <2>3 DEF Inv, TypeOK, Tick
<1>5. FilesNamed'
  BY <1>2 DEF Inv, FilesNamed
<1>6. Backed'
  <2> SUFFICES ASSUME server = "running", NEW d \in Domains \ unsaved, certs'[d] >= LoadMin
               PROVE  FileBacks(d)'
    BY DEF Backed, Tick
  <2>1. certs[d] >= LoadMin
    BY <1>3 DEF Inv, TypeOK, Older, None
  <2>2. disk[FileName(d)] = Stored(d, certs[d])
    BY <1>1, <2>1 DEF Inv, Backed, FileBacks
  <2>3. disk'[FileName(d)] = Stored(d, Older(certs[d]))
    <3>1. disk[FileName(d)].domain = d /\ disk[FileName(d)].left = certs[d]
      BY <2>2 DEF Stored
    <3> QED
      BY <1>2, <3>1, DomainFacts
  <2> QED
    BY <1>3, <2>3 DEF FileBacks
<1>7. MarginKept'
  BY <1>3, SMTT(30) DEF Inv, TypeOK, MarginKept, Tick, Older, None
<1>8. (OneRequest /\ SavesNew /\ ChallengeStands)'
  BY <1>1, DomainFacts DEF Inv, OneRequest, SavesNew, ChallengeStands, Tick
<1>9. OnlyRunning'
  <2>1. server # "running" => \A d \in Domains : certs'[d] = None
    BY <1>3 DEF Inv, OnlyRunning, Older, None
  <2>2. server # "running" => certs' = [d \in Domains |-> None]
    BY <2>1 DEF Tick
  <2> QED
    BY <2>2 DEF Inv, OnlyRunning, Tick, None
<1>10. RootFirst'
  <2> SUFFICES ASSUME updater' = Wildcard
               PROVE  certs'[Root] + age' >= RenewBefore
    BY DEF RootFirst
  <2>1. updater = Wildcard /\ Root \in Domains
    BY DomainFacts DEF Tick
  <2>2. Waiting
    BY <2>1, DomainFacts DEF Tick
  <2>3. certs[Root] + age >= RenewBefore
    BY <2>1 DEF Inv, RootFirst
  <2>4. /\ certs[Root] \in Int /\ age \in 0 .. RenewBefore
        /\ certs'[Root] = Older(certs[Root])
        /\ age' = IF age < RenewBefore THEN age + 1 ELSE age
    BY <1>3, <2>1, <2>2, CertFacts DEF Inv, TypeOK, Tick
  <2> QED
    BY <2>3, <2>4 DEF Older
<1> QED
  BY <1>4, <1>5, <1>6, <1>7, <1>8, <1>9, <1>10 DEF Inv

-----------------------------------------------------------------------------
(* Steps of the updater                                                    *)

\* What a step that leaves the store alone cannot disturb.
LEMMA StoreFrame ==
  ASSUME Inv, server = "running", UNCHANGED <<config, server, storeVars>>,
         \A d \in Domains : req'[d] \in {"save", "write"} => req[d] \in {"save", "write"},
         \A d \in Domains : req[d] \in {"save", "write"} => req'[d] \in {"save", "write"}
  PROVE  (OnlyRunning /\ SavesNew /\ FilesNamed /\ Backed)'
BY DEF Inv, OnlyRunning, SavesNew, FilesNamed, Backed, FileBacks, storeVars

\* Going on to the next domain with d renewed, or ending the round well.
LEMMA AdvanceFacts ==
  ASSUME Inv, NEW d \in Domains, updater = d, ~ShouldRenewCert(d), Advance(d),
         UNCHANGED certs
  PROVE  /\ updater' \in {Wildcard, "asleep"} /\ updater' # d
         /\ lastOk' \in {None} \cup 0 .. RenewBefore /\ age' \in 0 .. RenewBefore
         /\ (RootFirst /\ MarginKept)'
<1> USE CertAssumption
<1>1. /\ certs[d] \in Int /\ certs[d] >= RenewBefore
      /\ age \in 0 .. RenewBefore /\ age \in Int
      /\ lastOk \in {None} \cup 0 .. RenewBefore
  BY CertFacts DEF Inv, TypeOK
<1>2. certs[d] + age >= RenewBefore
  BY <1>1
<1>3. Domains = {Root, Wildcard} /\ Wildcard \notin {Root, "asleep"}
  BY DEF Domains, Root, Wildcard
<1>4. CASE d = Root
  <2>1. updater' = Wildcard /\ lastOk' = lastOk /\ age' = age
    BY <1>4 DEF Advance
  <2>2. RootFirst'
    BY <1>2, <1>4, <2>1 DEF RootFirst
  <2>3. MarginKept'
    BY <2>1 DEF Inv, MarginKept
  <2> QED
    BY <1>1, <1>3, <1>4, <2>1, <2>2, <2>3
<1>5. CASE d = Wildcard
  <2>1. updater' = "asleep" /\ lastOk' = age /\ age' = 0
    BY <1>3, <1>5 DEF Advance, RoundEnds
  <2>2. certs[Root] + age >= RenewBefore
    BY <1>5 DEF Inv, RootFirst
  <2>3. MarginKept'
    BY <1>2, <1>3, <1>5, <2>1, <2>2 DEF MarginKept
  <2>4. RootFirst'
    BY <1>3, <2>1 DEF RootFirst
  <2>5. age' \in 0 .. RenewBefore
    BY <2>1
  <2> QED
    BY <1>1, <1>3, <1>5, <2>1, <2>3, <2>4, <2>5
<1> QED
  BY <1>3, <1>4, <1>5

\* A round that ends with an error.
LEMMA RoundEndsFacts ==
  ASSUME Inv, RoundEnds(FALSE), UNCHANGED certs
  PROVE  /\ updater' = "asleep" /\ lastOk' = lastOk /\ age' \in 0 .. RenewBefore
         /\ (RootFirst /\ MarginKept)'
<1>1. updater' = "asleep" /\ lastOk' = lastOk /\ age' = 0
  BY DEF RoundEnds
<1>2. age' \in 0 .. RenewBefore
  BY <1>1, CertAssumption
<1>3. (RootFirst /\ MarginKept)'
  BY <1>1, DomainFacts DEF Inv, RootFirst, MarginKept
<1> QED
  BY <1>1, <1>2, <1>3

\* A round begins at Root when some domain is due, or ends well at once.
LEMMA WakeStep == Inv /\ Wake => Inv'
<1> SUFFICES ASSUME Inv, Wake
             PROVE  Inv'
  OBVIOUS
<1> USE CertAssumption
<1>1. server = "running" /\ \A d \in Domains : req[d] = "idle"
  BY DomainFacts DEF Inv, TypeOK, OneRequest, OnlyRunning, Wake
<1>2. (OnlyRunning /\ SavesNew /\ FilesNamed /\ Backed)'
  BY <1>1, StoreFrame DEF Wake
<1>3. (OneRequest /\ ChallengeStands)'
  BY <1>1 DEF OneRequest, ChallengeStands, Wake
<1>4. TypeOK'
  <2>1. /\ updater' \in {Root, "asleep"}
        /\ lastOk' \in {lastOk, age} /\ age' \in {age, 0}
    BY DEF Wake, RoundEnds
  <2>2. /\ updater' \in {"none", "due", "asleep"} \cup Domains
        /\ lastOk' \in {None} \cup 0 .. RenewBefore /\ age' \in 0 .. RenewBefore
    <3>1. /\ age \in 0 .. RenewBefore /\ 0 \in 0 .. RenewBefore
          /\ lastOk \in {None} \cup 0 .. RenewBefore
      BY DEF Inv, TypeOK
    <3>2. Root \in Domains
      BY DomainFacts
    <3> QED
      BY <2>1, <3>1, <3>2
  <2> QED
    BY <2>2 DEF Inv, TypeOK, Wake, storeVars
<1>5. RootFirst'
  BY DomainFacts DEF RootFirst, Wake, RoundEnds
<1>6. MarginKept'
  <2>1. CASE ShouldRenew
    BY <2>1 DEF Inv, MarginKept, Wake, storeVars
  <2>2. CASE ~ShouldRenew
    <3>1. \A d \in Domains : certs[d] >= RenewBefore
      BY <2>2, DomainFacts, CertFacts DEF Inv, ShouldRenew
    <3>2. lastOk' = age /\ age \in 0 .. RenewBefore /\ UNCHANGED certs
      BY <2>2 DEF Inv, TypeOK, Wake, RoundEnds, storeVars
    <3> QED
      BY <3>1, <3>2, CertFacts DEF Inv, MarginKept
  <2> QED
    BY <2>1, <2>2
<1> QED
  BY <1>2, <1>3, <1>4, <1>5, <1>6 DEF Inv

\* The loop over the domains: it leaves Root only when Root is not due.
LEMMA VisitStep == ASSUME Inv, NEW d \in Domains, Visit(d)
                   PROVE  Inv'
<1> USE CertAssumption
<1>1. /\ updater = d /\ server = "running"
      /\ \A e \in Domains : req[e] = "idle"
  BY AtDomain DEF Visit
<1>2. (OnlyRunning /\ SavesNew /\ FilesNamed /\ Backed)'
  BY <1>1, StoreFrame DEF Inv, TypeOK, Visit
<1>3. ChallengeStands'
  BY <1>1 DEF Inv, TypeOK, ChallengeStands, Visit
<1>4. CASE ShouldRenewCert(d) /\ req' = [req EXCEPT ![d] = "order"]
           /\ UNCHANGED <<updater, lastOk, age>>
  <2>1. TypeOK'
    BY <1>4 DEF Inv, TypeOK, Visit, storeVars
  <2>2. (OneRequest /\ RootFirst /\ MarginKept)'
    BY <1>1, <1>4 DEF Inv, TypeOK, OneRequest, RootFirst, MarginKept,
                      Visit, storeVars
  <2> QED
    BY <1>2, <1>3, <2>1, <2>2 DEF Inv
<1>5. CASE ~ShouldRenewCert(d) /\ Advance(d) /\ UNCHANGED req
  <2>1. /\ updater' \in {Wildcard, "asleep"}
        /\ lastOk' \in {None} \cup 0 .. RenewBefore /\ age' \in 0 .. RenewBefore
        /\ (RootFirst /\ MarginKept)'
    BY <1>1, <1>5, AdvanceFacts DEF Visit, storeVars
  <2>2. TypeOK'
    BY <1>5, <2>1, DomainFacts DEF Inv, TypeOK, Visit, storeVars
  <2>3. OneRequest'
    BY <1>1, <1>5 DEF OneRequest
  <2> QED
    BY <1>2, <1>3, <2>1, <2>2, <2>3 DEF Inv
<1> QED
  BY <1>4, <1>5 DEF Visit

\* The requests that a step at d leaves alone.
LEMMA ReqFacts ==
  ASSUME Inv, NEW d \in Domains, req[d] # "idle",
         NEW to \in {"idle", "order", "update", "challenge", "finalize", "save", "write"},
         req' = [req EXCEPT ![d] = to]
  PROVE  /\ req' \in [Domains -> {"idle", "order", "update", "challenge", "finalize",
                                  "save", "write"}]
         /\ req'[d] = to
         /\ \A e \in Domains : e # d => req'[e] = "idle" /\ req[e] = "idle"
BY AtDomain DEF Inv, TypeOK

\* A request that ends with an error of the CA, or of the updater of records,
\* leaving some values in the TXT record.
LEMMA FailStep ==
  ASSUME Inv, NEW d \in Domains, req[d] \in {"order", "update", "challenge", "finalize"},
         req' = [req EXCEPT ![d] = "idle"], RoundEnds(FALSE),
         txt' \in Seq(Tokens), Len(txt') <= MaxRecords,
         UNCHANGED <<config, server, storeVars>>
  PROVE  Inv'
<1>1. /\ updater = d /\ server = "running"
      /\ \A e \in Domains : e # d => req[e] = "idle"
  BY AtDomain
<1>2. /\ req' \in [Domains -> {"idle", "order", "update", "challenge", "finalize",
                                  "save", "write"}]
      /\ \A e \in Domains : req'[e] = "idle"
  BY ReqFacts
<1>3. (OnlyRunning /\ SavesNew /\ FilesNamed /\ Backed)'
  BY <1>1, <1>2, StoreFrame
<1>4. /\ updater' = "asleep" /\ lastOk' = lastOk /\ age' \in 0 .. RenewBefore
      /\ (RootFirst /\ MarginKept)'
  BY RoundEndsFacts DEF storeVars
<1>5. TypeOK'
  BY <1>2, <1>4 DEF Inv, TypeOK, Tokens, storeVars
<1>6. (OneRequest /\ ChallengeStands)'
  BY <1>2 DEF OneRequest, ChallengeStands
<1> QED
  BY <1>3, <1>4, <1>5, <1>6 DEF Inv

\* A request that fails ends the round.
LEMMA RequestFailsStep == ASSUME Inv, NEW d \in Domains, RequestFails(d)
                          PROVE  Inv'
<1>1. txt' \in Seq(Tokens) /\ Len(txt') <= MaxRecords
  BY OldFacts DEF Inv, TypeOK, RequestFails, Fail, Tokens
<1> QED
  BY <1>1, FailStep DEF RequestFails, Fail

\* A failed update of the record: what Cloudflare did of it stays.
LEMMA UpdateRecordFailsStep == ASSUME Inv, NEW d \in Domains, UpdateRecordFails(d)
                               PROVE  Inv'
<1>1. PICK t \in {txt} \cup Put(d) \cup Post(d) : txt' = Old(t, {d})
  BY DEF UpdateRecordFails
<1>2. t \in Seq(Tokens) /\ Len(t) <= MaxRecords
  BY RecordFacts DEF Inv, TypeOK, Tokens
<1>3. txt' \in Seq(Tokens) /\ Len(txt') <= MaxRecords
  BY <1>1, <1>2, OldFacts
<1> QED
  BY <1>3, FailStep DEF UpdateRecordFails

\* A request goes from one step to the next, short of Finalize.
LEMMA ToStep ==
  ASSUME Inv, NEW d \in Domains,
         NEW from \in {"order", "update", "challenge"},
         NEW to \in {"update", "challenge", "finalize"},
         To(d, from, to),
         txt' \in Seq(Tokens), Len(txt') <= MaxRecords,
         to = "challenge" => \E i \in DOMAIN txt' : txt'[i] = d
  PROVE  Inv'
<1>1. /\ updater = d /\ server = "running"
      /\ \A e \in Domains : e # d => req[e] = "idle"
  BY AtDomain DEF To
<1>2. /\ req' \in [Domains -> {"idle", "order", "update", "challenge", "finalize",
                                  "save", "write"}]
      /\ req'[d] = to /\ \A e \in Domains : e # d => req'[e] = "idle"
  BY ReqFacts DEF To
<1>3. (OnlyRunning /\ SavesNew /\ FilesNamed /\ Backed)'
  BY <1>1, <1>2, StoreFrame DEF To
<1>4. TypeOK'
  BY <1>2 DEF Inv, TypeOK, Tokens, To, storeVars
<1>5. (OneRequest /\ ChallengeStands)'
  BY <1>1, <1>2 DEF OneRequest, ChallengeStands, To
<1>6. (RootFirst /\ MarginKept)'
  BY DEF Inv, RootFirst, MarginKept, To, storeVars
<1> QED
  BY <1>3, <1>4, <1>5, <1>6 DEF Inv

\* The CA is asked for a certificate of the domain the updater is at.
LEMMA OrderStep == ASSUME Inv, NEW d \in Domains, Order(d)
                   PROVE  Inv'
BY ToStep DEF Inv, TypeOK, Order, Tokens

\* The token is in the record when the update returns.
LEMMA UpdateRecordStep == ASSUME Inv, NEW d \in Domains, UpdateRecord(d)
                          PROVE  Inv'
<1>1. /\ txt' \in Seq(Tokens) /\ Len(txt') <= MaxRecords
      /\ \E i \in DOMAIN txt' : txt'[i] = d
  BY RecordFacts DEF Inv, TypeOK, UpdateRecord, Tokens
<1> QED
  BY <1>1, ToStep DEF UpdateRecord

\* The CA looks: nothing but the position of the request changes.
LEMMA ChallengeStep ==
  ASSUME Inv, NEW d \in Domains, NEW to \in {"finalize", "update"}, Challenge(d, to)
  PROVE  Inv'
BY ToStep DEF Inv, TypeOK, Challenge, Tokens

\* The new certificate is in memory.
LEMMA FinalizeStep == ASSUME Inv, NEW d \in Domains, Finalize(d)
                      PROVE  Inv'
<1> USE CertAssumption
<1>1. /\ updater = d /\ server = "running"
      /\ \A e \in Domains : e # d => req[e] = "idle"
  BY AtDomain DEF Finalize
<1>2. /\ req' \in [Domains -> {"idle", "order", "update", "challenge", "finalize",
                                  "save", "write"}]
      /\ req'[d] = "save" /\ \A e \in Domains : e # d => req'[e] = "idle"
  BY ReqFacts DEF Finalize
<1>3. /\ certs' \in [Domains -> {None} \cup 0 .. Validity]
      /\ certs'[d] = Validity /\ \A e \in Domains : e # d => certs'[e] = certs[e]
  BY DEF Inv, TypeOK, Finalize
<1>4. txt' \in Seq(Tokens) /\ Len(txt') <= MaxRecords
  BY OldFacts DEF Inv, TypeOK, Finalize, Tokens
<1>5. TypeOK'
  BY <1>2, <1>3, <1>4 DEF Inv, TypeOK, Tokens, Finalize
<1>6. (OneRequest /\ OnlyRunning /\ SavesNew /\ ChallengeStands)'
  BY <1>1, <1>2, <1>3 DEF OneRequest, OnlyRunning, SavesNew, ChallengeStands, Finalize
<1>7. RootFirst'
  <2>1. CASE d = Root
    BY <1>1, <2>1, DomainFacts DEF RootFirst, Finalize
  <2>2. CASE d # Root
    BY <1>3, <2>2, DomainFacts DEF Inv, RootFirst, Finalize
  <2> QED
    BY <2>1, <2>2
<1>8. MarginKept'
  <2>1. lastOk # None => lastOk >= 0
    BY DEF Inv, TypeOK
  <2> QED
    BY <1>3, <2>1 DEF Inv, TypeOK, MarginKept, Finalize
<1>9. FilesNamed'
  BY DEF Inv, FilesNamed, Finalize
<1>10. Backed'
  BY <1>1, <1>2, <1>3 DEF Inv, Backed, FileBacks, Finalize
<1> QED
  BY <1>5, <1>6, <1>7, <1>8, <1>9, <1>10 DEF Inv

\* Writing the file of d leaves the others alone.
LEMMA DiskFacts ==
  ASSUME TypeOK, FilesNamed, NEW d \in Domains, NEW c \in Contents,
         c.domain \in {"", d}, disk' = [disk EXCEPT ![FileName(d)] = c]
  PROVE  /\ disk' \in [Files -> Contents]
         /\ disk'[FileName(d)] = c
         /\ \A e \in Domains : e # d => disk'[FileName(e)] = disk[FileName(e)]
         /\ FilesNamed'
<1>1. FileName(d) \in Files
  BY DomainFacts
<1>2. /\ disk' \in [Files -> Contents] /\ disk'[FileName(d)] = c
      /\ \A f \in Files : f # FileName(d) => disk'[f] = disk[f]
  BY <1>1 DEF TypeOK
<1>3. \A e \in Domains : e # d => disk'[FileName(e)] = disk[FileName(e)]
  BY <1>2, DomainFacts
<1>4. FilesNamed'
  <2> SUFFICES ASSUME NEW f \in Files, NEW e \in Domains, disk'[f].domain = e
               PROVE  f = FileName(e)
    BY DEF FilesNamed
  <2>1. CASE f = FileName(d)
    <3>1. e \in {"", d}
      BY <1>2, <2>1
    <3>2. e # ""
      BY DomainFacts
    <3> QED
      BY <2>1, <3>1, <3>2
  <2>2. CASE f # FileName(d)
    BY <1>2, <2>2 DEF FilesNamed
  <2> QED
    BY <2>1, <2>2
<1> QED
  BY <1>2, <1>3, <1>4

\* fs::write empties the file: the one time memory has no file behind it.
LEMMA SaveStep == ASSUME Inv, NEW d \in Domains, Save(d)
                  PROVE  Inv'
<1>1. /\ updater = d /\ server = "running"
      /\ \A e \in Domains : e # d => req[e] = "idle"
  BY AtDomain DEF Save
<1>2. /\ req' \in [Domains -> {"idle", "order", "update", "challenge", "finalize",
                                  "save", "write"}]
      /\ req'[d] = "write" /\ \A e \in Domains : e # d => req'[e] = "idle"
  BY ReqFacts DEF Save
<1>3. /\ disk' \in [Files -> Contents]
      /\ \A e \in Domains : e # d => disk'[FileName(e)] = disk[FileName(e)]
      /\ FilesNamed'
  <2>1. Torn \in Contents /\ Torn.domain = ""
    BY DEF Contents, Torn
  <2> QED
    BY <2>1, DiskFacts DEF Inv, Save
<1>4. TypeOK'
  BY <1>2, <1>3 DEF Inv, TypeOK, Save
<1>5. (OneRequest /\ OnlyRunning /\ SavesNew /\ ChallengeStands)'
  BY <1>1, <1>2 DEF Inv, OneRequest, OnlyRunning, SavesNew, ChallengeStands, Save
<1>6. (RootFirst /\ MarginKept)'
  BY DEF Inv, RootFirst, MarginKept, Save
<1>7. Backed'
  BY <1>1, <1>2, <1>3 DEF Inv, Backed, FileBacks, Save
<1> QED
  BY <1>3, <1>4, <1>5, <1>6, <1>7 DEF Inv

\* store_cert is over, well or not: d needs no renewal, and the loop goes on.
LEMMA StoredStep ==
  ASSUME Inv, NEW d \in Domains, req[d] \in {"save", "write"},
         req' = [req EXCEPT ![d] = "idle"], Advance(d),
         UNCHANGED <<config, server, certs, dir, txt>>,
         disk' \in [Files -> Contents], FilesNamed',
         unsaved' \in SUBSET Domains,
         \A e \in Domains : e # d =>
           /\ disk'[FileName(e)] = disk[FileName(e)]
           /\ e \in unsaved' <=> e \in unsaved,
         d \notin unsaved' => FileBacks(d)'
  PROVE  Inv'
<1>1. /\ updater = d /\ server = "running"
      /\ \A e \in Domains : e # d => req[e] = "idle"
  BY AtDomain
<1>2. /\ req' \in [Domains -> {"idle", "order", "update", "challenge", "finalize",
                                  "save", "write"}]
      /\ \A e \in Domains : req'[e] = "idle"
  BY ReqFacts
<1>3. ~ShouldRenewCert(d)
  BY CertAssumption DEF Inv, SavesNew, ShouldRenewCert
<1>4. /\ updater' \in {Wildcard, "asleep"}
      /\ lastOk' \in {None} \cup 0 .. RenewBefore /\ age' \in 0 .. RenewBefore
      /\ (RootFirst /\ MarginKept)'
  BY <1>1, <1>3, AdvanceFacts
<1>5. TypeOK'
  BY <1>2, <1>4, DomainFacts DEF Inv, TypeOK
<1>6. (OneRequest /\ SavesNew /\ ChallengeStands /\ OnlyRunning)'
  BY <1>1, <1>2 DEF OneRequest, SavesNew, ChallengeStands, OnlyRunning
<1>7. Backed'
  <2> SUFFICES ASSUME NEW e \in Domains \ unsaved', certs[e] >= LoadMin
               PROVE  FileBacks(e)'
    BY DEF Backed
  <2>1. CASE e = d
    BY <2>1
  <2>2. CASE e # d
    BY <1>1, <2>2 DEF Inv, Backed, FileBacks
  <2> QED
    BY <2>1, <2>2
<1> QED
  BY <1>4, <1>5, <1>6, <1>7 DEF Inv

\* The file is whole, and the request over.
LEMMA SavedStep == ASSUME Inv, NEW d \in Domains, Saved(d)
                   PROVE  Inv'
<1> DEFINE c == Stored(d, certs[d])
<1>1. c \in Contents /\ c.domain = d
  <2>1. certs[d] \in 0 .. Validity
    BY CertAssumption DEF Inv, SavesNew, Saved
  <2> QED
    BY <2>1 DEF Contents, Stored
<1>2. /\ disk' \in [Files -> Contents] /\ FilesNamed'
      /\ \A e \in Domains : e # d => disk'[FileName(e)] = disk[FileName(e)]
      /\ disk'[FileName(d)] = c
  BY <1>1, DiskFacts DEF Inv, Saved
<1>3. FileBacks(d)'
  BY <1>2 DEF FileBacks, Saved
<1> QED
  BY <1>2, <1>3, StoredStep DEF Inv, TypeOK, Saved

\* A write that fails is remembered in unsaved.
LEMMA SaveFailsStep == ASSUME Inv, NEW d \in Domains, SaveFails(d)
                       PROVE  Inv'
<1>1. FilesNamed'
  BY DEF Inv, FilesNamed, SaveFails
<1> QED
  BY <1>1, StoredStep DEF Inv, TypeOK, SaveFails

\* Every step keeps the invariant.
LEMMA NextInv == Inv /\ [Next]_vars => Inv'
<1> SUFFICES ASSUME Inv, [Next]_vars
             PROVE  Inv'
  OBVIOUS
<1>1. CASE UNCHANGED vars
  BY <1>1 DEF Inv, TypeOK, OneRequest, OnlyRunning, RootFirst, SavesNew, FilesNamed,
              Backed, FileBacks, ChallengeStands, MarginKept, vars,
              storeVars
<1>2. ASSUME NEW d \in Domains, Request(d)
      PROVE  Inv'
  BY <1>2, VisitStep, RequestFailsStep, OrderStep, UpdateRecordStep,
     UpdateRecordFailsStep, ChallengeStep, FinalizeStep, SaveStep, SavedStep,
     SaveFailsStep
     DEF Request
<1> QED
  BY <1>1, <1>2, StartStep, StartFailsStep, CrashStep, RepairStep, WakeStep, TickStep
     DEF Next

-----------------------------------------------------------------------------
(* Theorems                                                                *)

\* Inv is inductive: what all of the below rests on.
THEOREM Invariant == Spec => []Inv
  BY InitInv, NextInv, PTL DEF Spec

\* run_https never finds the store missing that its `expect' takes for
\* granted, whatever the configuration, and the state keeps its types.
THEOREM TypeCorrect == Spec => []TypeOK
<1>1. Inv => TypeOK
  BY DEF Inv
<1> QED
  BY <1>1, Invariant, PTL

\* The token of a request stays in the TXT record until the CA has answered:
\* renew requests one certificate after the other.
THEOREM TokenStands == Spec => []ChallengeStands
<1>1. Inv => ChallengeStands
  BY DEF Inv
<1> QED
  BY <1>1, Invariant, PTL

\* The margin a successful round leaves is only used up by days going by.
THEOREM Margin == Spec => []MarginKept
<1>1. Inv => MarginKept
  BY DEF Inv
<1> QED
  BY <1>1, Invariant, PTL

\* resolve finds a valid certificate for every server name so long as one
\* round within the margin has ended well.
THEOREM Served == Spec => []HttpsServed
<1>1. Inv => HttpsServed
  <2> SUFFICES ASSUME Inv, lastOk \in 0 .. RenewBefore - 1, NEW name \in ServerNames
               PROVE  /\ Resolve(name) = Covering(name)
                      /\ certs[Resolve(name)] > 0
    BY DEF HttpsServed
  <2>1. \A d \in Domains : certs[d] > 0 /\ certs[d] # None
    BY CertAssumption, CertFacts DEF Inv, MarginKept, None
  <2> DEFINE has(k) == k \in Domains /\ certs[k] # None
             keys   == <<TopLevel(name), ServerName(name), Root>>
             found  == {i \in 1 .. 3 : has(keys[i])}
  <2>2. Root \in Domains /\ Wildcard \in Domains /\ "not a key" \notin Domains
    BY DEF Domains, Root, Wildcard
  <2>3. found # {} => Resolve(name) = keys[CHOOSE i \in found : \A j \in found : i <= j]
    BY DEF Resolve
  <2>4. \A i : i \in found <=> i \in {1, 2, 3} /\ keys[i] \in Domains /\ certs[keys[i]] # None
    <3>1. 1 .. 3 = {1, 2, 3}
      OBVIOUS
    <3> QED
      BY <3>1
  <2> HIDE DEF found, keys
  <2>5. CASE name = "sub"
    <3>1. keys[1] = Wildcard /\ Covering(name) = Wildcard
      BY <2>5 DEF keys, TopLevel, Covering
    <3>2. 1 \in found /\ \A j \in found : 1 <= j
      <4>1. 1 \in found
        BY <2>1, <2>2, <2>4, <3>1
      <4>2. found \subseteq {1, 2, 3}
        BY <2>4
      <4> QED
        BY <4>1, <4>2
    <3>3. (CHOOSE i \in found : \A j \in found : i <= j) = 1
      BY <3>2
    <3> QED
      BY <2>1, <2>2, <2>3, <3>1, <3>2, <3>3
  <2>6. CASE name # "sub"
    <3>1. keys[1] = "not a key" /\ keys[2] = Root /\ Covering(name) = Root
      BY <2>6 DEF keys, TopLevel, ServerName, Covering
    <3>2. 2 \in found /\ \A j \in found : 2 <= j
      <4>1. 2 \in found /\ 1 \notin found
        BY <2>1, <2>2, <2>4, <3>1
      <4>2. found \subseteq {1, 2, 3}
        BY <2>4
      <4> QED
        BY <4>1, <4>2
    <3>3. (CHOOSE i \in found : \A j \in found : i <= j) = 2
      BY <3>2
    <3> QED
      BY <2>1, <2>2, <2>3, <3>1, <3>2, <3>3
  <2> QED
    BY <2>5, <2>6
<1> QED
  BY <1>1, Invariant, PTL

\* What a running server has in memory its next start would load.
THEOREM DiskBacks == Spec => []DiskBacksMemory
<1>1. Inv => DiskBacksMemory
  <2> SUFFICES ASSUME Inv, server = "running", NEW d \in Domains \ unsaved,
                      req[d] \notin {"save", "write"}, certs[d] >= LoadMin
               PROVE  Loaded(d) = certs[d] /\ disk[FileName(d)] # Torn
    BY DEF DiskBacksMemory
  <2>1. disk[FileName(d)] = Stored(d, certs[d])
    BY DEF Inv, Backed, FileBacks
  <2>2. disk[FileName(d)].domain = d /\ disk[FileName(d)].left = certs[d]
    BY <2>1 DEF Stored
  <2>3. Loaded(d) = certs[d]
    BY <2>2, LoadedFacts DEF Inv
  <2> QED
    BY <2>2, <2>3, DomainFacts, ContentFacts DEF Inv, TypeOK
<1> QED
  BY <1>1, Invariant, PTL
=============================================================================
