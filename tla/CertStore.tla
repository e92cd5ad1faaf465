----------------------------- MODULE CertStore ------------------------------
(***************************************************************************)
(* The certificates of a server (cert/store.rs, generator.rs,              *)
(* cloudflare.rs): loaded from CERTS_DIR at the start, checked every hour  *)
(* by the updater task of run_https, renewed one domain after the other    *)
(* through the DNS challenge of the ACME protocol, kept in memory and      *)
(* written to disk.  Processes crash, calls to the CA and to Cloudflare    *)
(* fail or lose their answer, and certificates get older.                  *)
(*                                                                         *)
(* A certificate is the number of days it has left, 0 when expired.  The   *)
(* token of a challenge is the domain whose request asked for it, or "old" *)
(* when its request is over.  The TXT record _acme-challenge.<domain> is   *)
(* one name for both domains and may hold several values.                  *)
(***************************************************************************)
EXTENDS Integers, Sequences

CONSTANTS Validity,     \* days of a new certificate
          RenewBefore,  \* MINIMUM_CERT_RENEW_DURATION
          LoadMin,      \* MINIMUM_CERT_LOAD_DURATION
          MaxRecords,   \* bound: values of the TXT record
          Configs       \* the configurations to consider

Config == [production : BOOLEAN, http : BOOLEAN, https : BOOLEAN,
           domain : BOOLEAN, certsDir : BOOLEAN, acme : BOOLEAN,
           persist : BOOLEAN, staging : BOOLEAN, cloudflare : BOOLEAN]

ASSUME CertAssumption == /\ Validity \in Nat /\ RenewBefore \in Nat
                         /\ LoadMin \in Nat /\ MaxRecords \in Nat
                         /\ 0 < LoadMin /\ LoadMin <= RenewBefore
                         /\ RenewBefore < Validity
                         /\ Configs \subseteq Config

Root == "root"          \* Store.domain
Wildcard == "wildcard"  \* wildcard_domain

Domains == {Root, Wildcard}

None == -1   \* no certificate, or no round that ended well

VARIABLES
  config,   \* the configuration; never changes
  server,   \* down, refused (a start failed), running, panicked
  certs,    \* Store.certs: days left of each domain's certificate, or None
  dir,      \* CERTS_DIR exists
  disk,     \* the files of CERTS_DIR
  updater,  \* none, due, asleep (in its sleep), or the domain it is at
  req,      \* where the request of each domain is
  txt,      \* values of the TXT record
  lastOk,   \* history: days since the beginning of the last round of this run
            \*   that ended well, or None
  age,      \* history: days since the beginning of the round under way
  unsaved   \* history: domains whose last write to disk failed

storeVars == <<certs, dir, disk, unsaved>>
vars      == <<config, server, storeVars, updater, req, txt, lastOk, age>>

-----------------------------------------------------------------------------
(* Files                                                                   *)

OneFileName(d) == "domain"

\* cert_filename: lower case, * replaced by STAR.
FileName(d) == IF d = Wildcard THEN "STAR.domain" ELSE "domain"

Files == {"domain", "STAR.domain"}

\* What a file holds: the domain and the certificate of a StoredCert, or
\* text that does not parse.
Absent == [domain |-> "", left |-> None]
Torn   == [domain |-> "", left |-> -2]

Stored(d, left) == [domain |-> d, left |-> left]

Contents == {Absent, Torn} \cup [domain : Domains, left : 0 .. Validity]

\* The certificate that load takes of a domain, in whatever file it is.
Loaded(d) ==
  LET good == {f \in Files : disk[f].domain = d /\ disk[f].left >= LoadMin}
  IN IF good = {} THEN None ELSE disk[CHOOSE f \in good : TRUE].left

-----------------------------------------------------------------------------
(* Configuration                                                           *)

HasAcme == config.acme /\ config.persist

EnableCertStore == HasAcme /\ config.certsDir

ProductionCheck == /\ config.http /\ config.https /\ config.domain
                   /\ config.certsDir /\ config.acme
                   /\ ~config.staging /\ config.cloudflare

\* Store::load returns Ok: the directory and every file can be read.
LoadOk == dir /\ \A f \in Files : disk[f] # Torn

ConfigOkWithoutStore == /\ config.production => ProductionCheck
                        /\ EnableCertStore => LoadOk

\* Config::server and cert_store return Ok.
ConfigOk == /\ config.production => ProductionCheck
            /\ IF EnableCertStore THEN LoadOk ELSE ~config.https

Init ==
  /\ config \in Configs
  /\ server = "down" /\ updater = "none"
  /\ certs = [d \in Domains |-> None]
  /\ dir \in BOOLEAN /\ disk = [f \in Files |-> Absent]
  /\ req = [d \in Domains |-> "idle"]
  /\ txt = <<>>
  /\ lastOk = None /\ age = 0 /\ unsaved = {}

\* main: load the certificates and run; run_https expects a store.
Start ==
  /\ server \in {"down", "refused"} /\ ConfigOk
  /\ server' = IF config.https /\ ~EnableCertStore THEN "panicked" ELSE "running"
  /\ certs' = [d \in Domains |-> IF EnableCertStore THEN Loaded(d) ELSE None]
  /\ updater' = IF config.https THEN "due" ELSE "none"
  /\ UNCHANGED <<config, dir, disk, unsaved, req, txt, lastOk, age>>

StartFails ==
  /\ server \in {"down", "refused"} /\ ~ConfigOk
  /\ server' = "refused"
  /\ UNCHANGED <<config, storeVars, updater, req, txt, lastOk, age>>

\* A token whose request is over is just an old value.
Old(records, ds) ==
  [i \in DOMAIN records |-> IF records[i] \in ds THEN "old" ELSE records[i]]

\* The process ends, at any moment: memory is gone, disk and DNS stay.
Crash ==
  /\ server = "running" /\ server' = "down"
  /\ certs' = [d \in Domains |-> None]
  /\ updater' = "none" /\ req' = [d \in Domains |-> "idle"]
  /\ txt' = Old(txt, Domains) /\ lastOk' = None /\ age' = 0
  /\ unsaved' = {}
  /\ UNCHANGED <<config, dir, disk>>

\* The operator makes the directory and removes files that do not parse.
Repair ==
  /\ server = "refused" /\ config.certsDir /\ ~LoadOk
  /\ dir' = TRUE
  /\ disk' = [f \in Files |-> IF disk[f] = Torn THEN Absent ELSE disk[f]]
  /\ UNCHANGED <<config, server, certs, unsaved, updater, req, txt, lastOk, age>>

-----------------------------------------------------------------------------
(* The updater                                                             *)

ShouldRenewCert(d) == certs[d] < RenewBefore

ShouldRenewBoth == ShouldRenewCert(Root) /\ ShouldRenewCert(Wildcard)

ShouldRenew == ShouldRenewCert(Root) \/ ShouldRenewCert(Wildcard)

RoundEndsForGood(ok) == /\ updater' = IF ok THEN "asleep" ELSE "none"
                        /\ lastOk' = IF ok THEN age ELSE lastOk
                        /\ age' = 0

\* renew returns, with Ok or with an error that update logs.
RoundEnds(ok) == /\ updater' = "asleep"
                 /\ lastOk' = IF ok THEN age ELSE lastOk
                 /\ age' = 0

\* The loop over the two domains goes on after d.
Advance(d) == IF d = Root THEN updater' = Wildcard /\ UNCHANGED <<lastOk, age>>
                          ELSE RoundEnds(TRUE)

\* The hour is over: update, and its should_renew.
Wake ==
  /\ updater \in {"due", "asleep"}
  /\ IF ShouldRenew THEN updater' = Root /\ UNCHANGED <<lastOk, age>>
                    ELSE RoundEnds(TRUE)
  /\ UNCHANGED <<config, server, storeVars, req, txt>>

VisitInParallel(d) ==
  /\ updater = d /\ req[d] = "idle"
  /\ \/ ShouldRenewCert(d)
        /\ req' = [x \in Domains |-> IF ShouldRenewCert(x) THEN "order" ELSE req[x]]
        /\ UNCHANGED <<updater, lastOk, age>>
     \/ ~ShouldRenewCert(d) /\ Advance(d) /\ UNCHANGED req
  /\ UNCHANGED <<config, server, storeVars, txt>>

\* renew at d: leave it, or request a certificate.
Visit(d) ==
  /\ updater = d /\ req[d] = "idle"
  /\ \/ ShouldRenewCert(d) /\ req' = [req EXCEPT ![d] = "order"]
        /\ UNCHANGED <<updater, lastOk, age>>
     \/ ~ShouldRenewCert(d) /\ Advance(d) /\ UNCHANGED req
  /\ UNCHANGED <<config, server, storeVars, txt>>

\* Generator::request returns an error and `?' skips the domains after d.
Fail(d) == /\ req' = [req EXCEPT ![d] = "idle"]
           /\ txt' = Old(txt, {d}) /\ RoundEnds(FALSE)

\* An error of the CA: directory, account, order, validation or CSR; or no
\* answer of the DNS for 90 s.
RequestFails(d) ==
  /\ req[d] \in {"order", "challenge", "finalize"}
  /\ Fail(d)
  /\ UNCHANGED <<config, server, storeVars>>

To(d, from, to) == /\ req[d] = from
                   /\ req' = [req EXCEPT ![d] = to]
                   /\ UNCHANGED <<config, server, storeVars, updater, lastOk, age>>

\* new_order: a challenge, unless the CA still knows an authorization.
Order(d) == \/ To(d, "order", "update") /\ UNCHANGED txt
            \/ To(d, "order", "finalize") /\ UNCHANGED txt

\* get_record_id and update_record: the PUT goes to any of the values.
Put(d) == {[txt EXCEPT ![i] = d] : i \in DOMAIN txt}

\* create_record, after no PUT or one that was not answered: the POST adds a
\* value, whether or not the PUT was carried out.
Post(d) == {Append(t, d) : t \in IF Len(txt) < MaxRecords
                                 THEN Put(d) \cup {txt} ELSE {}}

\* dns::Updater::update returns Ok.
UpdateRecord(d) ==
  /\ config.cloudflare
  /\ To(d, "update", "challenge")
  /\ txt' \in Put(d) \cup Post(d)

\* update returns an error; its calls may have been carried out all the same.
UpdateRecordFails(d) ==
  /\ req[d] = "update"
  /\ req' = [req EXCEPT ![d] = "idle"]
  /\ RoundEnds(FALSE)
  /\ \E t \in {txt} \cup IF config.cloudflare THEN Put(d) \cup Post(d) ELSE {} :
       txt' = Old(t, {d})
  /\ UNCHANGED <<config, server, storeVars>>

\* txt_lookup finds the token and the CA does too, sooner or later; then the
\* order is ready, or the loop of request goes round again.
Challenge(d, to) ==
  /\ \E i \in DOMAIN txt : txt[i] = d
  /\ To(d, "challenge", to)
  /\ UNCHANGED txt

\* finalize_pkey and download; update_cert adds the certificate.
Finalize(d) ==
  /\ req[d] = "finalize"
  /\ req' = [req EXCEPT ![d] = "save"]
  /\ certs' = [certs EXCEPT ![d] = Validity]
  /\ txt' = Old(txt, {d})
  /\ UNCHANGED <<config, server, dir, disk, unsaved, updater, lastOk, age>>

\* store_cert: make the directory, open the file; fs::write empties it.
Save(d) ==
  /\ req[d] = "save"
  /\ req' = [req EXCEPT ![d] = "write"]
  /\ dir' = TRUE
  /\ disk' = [disk EXCEPT ![FileName(d)] = Torn]
  /\ UNCHANGED <<config, server, certs, unsaved, updater, txt, lastOk, age>>

Saved(d) ==
  /\ req[d] = "write"
  /\ req' = [req EXCEPT ![d] = "idle"]
  /\ disk' = [disk EXCEPT ![FileName(d)] = Stored(d, certs[d])]
  /\ unsaved' = unsaved \ {d}
  /\ Advance(d)
  /\ UNCHANGED <<config, server, certs, dir, txt>>

\* Either part of store_cert fails; update_cert logs the error.
SaveFails(d) ==
  /\ req[d] \in {"save", "write"}
  /\ req' = [req EXCEPT ![d] = "idle"]
  /\ unsaved' = unsaved \cup {d}
  /\ Advance(d)
  /\ UNCHANGED <<config, server, certs, dir, disk, txt>>

Older(left) == IF left > 0 THEN left - 1 ELSE left

\* The round waits for the CA, the DNS or Cloudflare: none of these calls has
\* a time limit.
Waiting == \E d \in Domains : req[d] \in {"order", "update", "challenge", "finalize"}

\* A day passes: between two rounds (a day has 24, so that one is due after
\* it), or inside one that waits.
Tick ==
  /\ updater \in {"none", "asleep"} \/ Waiting
  /\ certs' = [d \in Domains |-> Older(certs[d])]
  /\ disk' = [f \in Files |-> [disk[f] EXCEPT !.left = Older(@)]]
  /\ lastOk' = IF lastOk \in 0 .. RenewBefore - 1 THEN lastOk + 1 ELSE lastOk
  /\ age' = IF Waiting /\ age < RenewBefore THEN age + 1 ELSE age
  /\ updater' = IF updater = "asleep" THEN "due" ELSE updater
  /\ UNCHANGED <<config, server, dir, unsaved, req, txt>>

Request(d) == \/ Visit(d) \/ RequestFails(d) \/ Order(d) \/ UpdateRecord(d)
              \/ UpdateRecordFails(d) 
              \/ Challenge(d, "finalize") \/ Challenge(d, "update")
              \/ Finalize(d) \/ Save(d) \/ Saved(d) \/ SaveFails(d)

Next == \/ Start \/ StartFails \/ Crash \/ Repair \/ Wake \/ Tick
        \/ \E d \in Domains : Request(d)

Spec == Init /\ [][Next]_vars

\* The updater's task runs; the CA and the DNS do not fail for ever.
Fairness ==
  /\ WF_vars(Wake \/ \E d \in Domains : \/ Visit(d) \/ Save(d)
                                         \/ Saved(d) \/ SaveFails(d))
  /\ \A d \in Domains : /\ SF_vars(Order(d)) /\ SF_vars(UpdateRecord(d))
                        /\ SF_vars(Challenge(d, "finalize"))
                        /\ SF_vars(Finalize(d))

FairSpec == Spec /\ Fairness

-----------------------------------------------------------------------------
(* Resolving                                                               *)

\* The server names of a TLS hello: the domain, a subdomain, or none, which
\* stands for the domain.
ServerNames == {"apex", "sub", "none"}

TopLevelKeepsAll(name) == "not a key"

\* The key *.<rest of the name>, where it is a key at all.
TopLevel(name) == IF name = "sub" THEN Wildcard ELSE "not a key"

ServerName(name) == IF name = "sub" THEN "not a key" ELSE Root

\* resolve: the first of the three keys that has a certificate.
Resolve(name) ==
  LET has(k) == k \in Domains /\ certs[k] # None
      keys   == <<TopLevel(name), ServerName(name), Root>>
      found  == {i \in 1 .. 3 : has(keys[i])}
  IN IF found = {} THEN "no certificate"
     ELSE keys[CHOOSE i \in found : \A j \in found : i <= j]

\* The domain whose certificate a TLS client accepts for a server name.
Covering(name) == IF name = "sub" THEN Wildcard ELSE Root

-----------------------------------------------------------------------------
(* Properties                                                              *)

\* Types of the state; in particular run_https never finds the store missing
\* that its `expect' takes for granted, and the TXT record of the updater
\* stays within its bound.
TypeOK ==
  /\ config \in Configs
  /\ server \in {"down", "refused", "running"}
  /\ certs \in [Domains -> {None} \cup 0 .. Validity]
  /\ dir \in BOOLEAN
  /\ disk \in [Files -> Contents]
  /\ updater \in {"none", "due", "asleep"} \cup Domains
  /\ req \in [Domains -> {"idle", "order", "update", "challenge", "finalize",
                          "save", "write"}]
  /\ txt \in Seq(Domains \cup {"old"}) /\ Len(txt) <= MaxRecords
  /\ lastOk \in {None} \cup 0 .. RenewBefore /\ age \in 0 .. RenewBefore
  /\ unsaved \subseteq Domains

\* From the update of the record until the CA has answered, the token of a
\* request stays among the values of the TXT record that the requests of both
\* domains overwrite: what the comment in renew is about.
ChallengeStands ==
  \A d \in Domains : req[d] = "challenge" =>
                        \E i \in DOMAIN txt : txt[i] = d

\* A round of the updater that ended well leaves both certificates with the
\* days of MINIMUM_CERT_RENEW_DURATION, less the days since it began (it may
\* take days: the first domain ages while the second one's request hangs),
\* whatever later rounds, requests and writes come to.
MarginKept ==
  lastOk # None => \A d \in Domains : certs[d] + lastOk >= RenewBefore

\* So long as a round begun in those days has ended well, HTTPS is served: resolve
\* finds for each name a certificate that is valid for it and not expired.
HttpsServed ==
  lastOk \in 0 .. RenewBefore - 1 =>
    \A name \in ServerNames : /\ Resolve(name) = Covering(name)
                               /\ certs[Resolve(name)] > 0

\* What a running server has in memory is what its next start would load,
\* except in the middle of store_cert and after an error it only logged: the
\* only ways to a server that does not start, or starts with less.
DiskBacksMemory ==
  server = "running" =>
    \A d \in Domains \ unsaved :
      (req[d] \notin {"save", "write"} /\ certs[d] >= LoadMin) =>
        /\ Loaded(d) = certs[d]
        /\ disk[FileName(d)] # Torn

\* A certificate that is missing or due for renewal is renewed, unless the
\* process ends, through failed requests, lost answers and leftover values in
\* the TXT record, and though the first domain's error skips the second.
RenewalRecovers ==
  \A d \in Domains :
    (updater # "none" /\ config.cloudflare /\ ShouldRenewCert(d))
      ~> (~ShouldRenewCert(d) \/ server # "running")
=============================================================================
