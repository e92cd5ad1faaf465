---------------------------- MODULE MCCertStore -----------------------------
EXTENDS CertStore

Production == [production |-> TRUE, http |-> TRUE, https |-> TRUE,
               domain |-> TRUE, certsDir |-> TRUE, acme |-> TRUE,
               persist |-> TRUE, staging |-> FALSE, cloudflare |-> TRUE]

\* Production; what production_check overlooks or rejects; HTTP only, with and
\* without certificates; a store without Cloudflare.
MCConfigs == {Production,
              [Production EXCEPT !.persist = FALSE],
              [Production EXCEPT !.staging = TRUE],
              [Production EXCEPT !.production = FALSE, !.cloudflare = FALSE],
              [Production EXCEPT !.production = FALSE, !.https = FALSE],
              [Production EXCEPT !.production = FALSE, !.https = FALSE,
                                 !.acme = FALSE]}
=============================================================================
