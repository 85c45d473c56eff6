--------------------------------- MODULE Tls ---------------------------------
(***************************************************************************)
(* Certificates and the peers they prove: CaClient of                      *)
(* src/identity/caclient.rs with RootCertManager of src/tls/control.rs,    *)
(* WorkloadCertificate of src/tls/certificate.rs, the verifiers of         *)
(* src/tls/workload.rs, CrlManager of src/tls/crl.rs and ManagementTls of  *)
(* src/tls/management.rs.                                                  *)
(*                                                                         *)
(* A certificate is a record; that a signature is valid means that its     *)
(* root is one of the roots of the verifier.  When the certificates are    *)
(* fetched and kept is SecretManager.                                      *)
(***************************************************************************)
EXTENDS Naturals, Sequences, FiniteSets, SequencesExt

CONSTANTS
    NoValue,
    Fetches,            \* calls of fetch_certificate in flight
    Handshakes,
    Roots,              \* versions of the CA's root, 0 is the first
    Requested,          \* identities [td, sa] that certificates are asked for
    Responses,          \* what the CA may answer: a sequence of certificates
    CaNames,            \* the names in the CA server's certificate
    TlsConfigs,         \* [impersonate, alt, auth, tokenFile, ownDomain, allowed]
    Peers,              \* certificates that a peer may present
    CrlFiles,           \* contents of the CRL file: [kind, revoked]
    MaxFileChanges

\* Names are listed, times are numbers, and a list of serials is not the missing one.
ASSUME TlsAssumption ==
    /\ NoValue \notin Requested
    /\ \A cert \in Peers : cert.sans \in Seq(Range(cert.sans))
    /\ \A chain \in Responses :
          /\ chain \in Seq(Range(chain))
          /\ \A cert \in Range(chain) : cert.sans \in Seq(Range(cert.sans)) /\ cert.nb \in Nat /\ cert.na \in Nat
    /\ \A file \in CrlFiles : file.revoked # NoValue

VARIABLES tlsCfg, ca, fetch, crl, hs, changes

tlsVars == <<tlsCfg, ca, fetch, crl, hs, changes>>

TlsInit ==
    /\ tlsCfg \in TlsConfigs
    \* CaClient::new read version 0; the watcher may have come too late for version 1.
    /\ \E v \in {0, 1} : ca = [file |-> v, ok |-> TRUE, told |-> FALSE, dirty |-> FALSE, channel |-> 0, gap |-> v # 0]
    /\ fetch = [f \in Fetches |-> [stage |-> "idle", id |-> NoValue, read |-> NoValue, via |-> NoValue, cert |-> NoValue]]
    \* CrlManager::new: without a file it is loaded later, a broken one turns the lists off.
    /\ \E file \in CrlFiles :
          crl = [file |-> file, on |-> file.kind # "broken", event |-> FALSE,
                 ders |-> IF file.kind = "list" THEN file.revoked ELSE NoValue,
                 good |-> IF file.kind = "list" THEN file.revoked ELSE {}]
    /\ hs = [h \in Handshakes |-> [stage |-> "idle", side |-> NoValue, peer |-> NoValue, want |-> {}, crls |-> {},
                                   src |-> NoValue, due |-> {}]]
    /\ changes = 0

-----------------------------------------------------------------------------
(* Certificates                                                            *)

UriNames(cert) == {i \in DOMAIN cert.sans : cert.sans[i].type = "URI"}
IdNames(cert) == {i \in UriNames(cert) : cert.sans[i].id # NoValue}

\* The first of the names at these places.
FirstId(cert, places) == IF places = {} THEN NoValue ELSE cert.sans[Min(places)].id

\* identities: the URI names that can be parsed.
Identities(cert) == {cert.sans[i].id : i \in IdNames(cert)}

\* Certificate::identity: the first URI name, if it can be parsed.
CertIdentity(cert) == FirstId(cert, UriNames(cert))

IdentityFromConnection(cert) == FirstId(cert, IdNames(cert))

\* refresh_at, in the middle of the validity.
RefreshAt(cert) == IF cert.na < cert.nb THEN cert.na ELSE cert.nb + (cert.na - cert.nb) \div 2

\* get_duration_until_refresh, 0 before the validity begins.
DurationUntilRefresh(cert, now) ==
    LET half == IF cert.na < cert.nb THEN 0 ELSE (cert.na - cert.nb) \div 2
        elapsed == IF now < cert.nb THEN half ELSE now - cert.nb
    IN IF elapsed > half THEN 0 ELSE half - elapsed

\* WorkloadIdentity::from_certificate: no extension, or one that is valid.
WorkloadIdentityOk(cert) == cert.ext \in {"none", "ok"}

\* parse_cert of all of them.
Parses(chain) == \A i \in DOMAIN chain : chain[i].parses

\* WorkloadCertificate::new: the last of the chain holds the roots.
NewWorkloadCertificate(chain) ==
    IF chain = <<>> \/ Len(chain) = 1 \/ ~Parses(chain) THEN [err |-> TRUE]
    ELSE [err |-> FALSE, leaf |-> chain[1], chain |-> SubSeq(chain, 2, Len(chain) - 1), roots |-> {chain[Len(chain)].root}]

\* The checks of the answer.
AcceptedFor(c, id) ==
    /\ ~c.err
    /\ tlsCfg.impersonate => CertIdentity(c.leaf) = id
    /\ WorkloadIdentityOk(c.leaf)

-----------------------------------------------------------------------------
(* The CA client                                                           *)

\* The record with these of its fields replaced.
Updated(r, fields) == [x \in DOMAIN r |-> IF x \in DOMAIN fields THEN fields[x] ELSE r[x]]

SetFetch(f, fields) == fetch' = [fetch EXCEPT ![f] = Updated(fetch[f], fields)]
Rebuilding == {f \in Fetches : fetch[f].stage \in {"rebuild", "store"}}

\* The file is replaced, with an event for the watcher.
RotateRoot(v, ok) ==
    /\ changes < MaxFileChanges
    /\ changes' = changes + 1
    /\ ca' = [ca EXCEPT !.file = v, !.ok = ok, !.told = TRUE]
    /\ UNCHANGED <<tlsCfg, fetch, crl, hs>>

\* start_watcher's callback, after the debounce.
RootWatcher ==
    /\ ca.told
    /\ ca' = [ca EXCEPT !.told = FALSE, !.dirty = TRUE, !.gap = FALSE]
    /\ UNCHANGED <<tlsCfg, fetch, crl, hs, changes>>

\* fetch_certificate: take_dirty.
FetchCertificate(f, id) ==
    /\ fetch[f].stage = "idle"
    /\ SetFetch(f, [stage |-> IF ca.dirty THEN "rebuild" ELSE "clone", id |-> id])
    /\ ca' = [ca EXCEPT !.dirty = FALSE]
    /\ UNCHANGED <<tlsCfg, crl, hs, changes>>

\* What a failed rebuild leaves the flag at.
MarkDirtyNot(dirty) == dirty
MarkDirty(dirty) == TRUE

\* rebuild_channel reads the file; a failure re-arms the flag.
RebuildChannel(f) ==
    /\ fetch[f].stage = "rebuild"
    /\ IF ca.ok THEN /\ SetFetch(f, [stage |-> "store", read |-> ca.file])
                     /\ UNCHANGED ca
       ELSE /\ SetFetch(f, [stage |-> "clone"])
            /\ ca' = [ca EXCEPT !.dirty = MarkDirty(@)]
    /\ UNCHANGED <<tlsCfg, crl, hs, changes>>

\* The client is replaced.  The last of two overlapping rebuilds wins, with the
\* file it read.
StoreClient(f) ==
    /\ fetch[f].stage = "store"
    /\ SetFetch(f, [stage |-> "clone", read |-> NoValue])
    /\ ca' = [ca EXCEPT !.channel = fetch[f].read, !.gap = @ \/ Rebuilding # {f}]
    /\ UNCHANGED <<tlsCfg, crl, hs, changes>>

CloneClient(f) ==
    /\ fetch[f].stage = "clone"
    /\ SetFetch(f, [stage |-> "request", via |-> ca.channel])
    /\ UNCHANGED <<tlsCfg, ca, crl, hs, changes>>

\* control_plane_client_config and AltHostnameVerifier: the name that was dialled,
\* or with an alternative hostname that one.
CaVerified(root, serving) ==
    /\ root = serving
    /\ "ca" \in CaNames \/ (tlsCfg.alt # NoValue /\ tlsCfg.alt \in CaNames)

\* insert_headers: a token file is read for every request and must not be empty.
InsertHeaders == tlsCfg.auth = "Token" => tlsCfg.tokenFile # "empty"

\* create_certificate and the checks of the answer.
CaResponds(f, serving, chain) ==
    LET c == NewWorkloadCertificate(chain)
    IN /\ fetch[f].stage = "request" /\ InsertHeaders /\ CaVerified(fetch[f].via, serving)
       /\ SetFetch(f, [stage |-> "done", via |-> NoValue, cert |-> IF AcceptedFor(c, fetch[f].id) THEN c ELSE [err |-> TRUE]])
       /\ UNCHANGED <<tlsCfg, ca, crl, hs, changes>>

CaFails(f) ==
    /\ fetch[f].stage = "request"
    /\ SetFetch(f, [stage |-> "done", via |-> NoValue, cert |-> [err |-> TRUE]])
    /\ UNCHANGED <<tlsCfg, ca, crl, hs, changes>>

\* The manager asks again.
FetchAgain(f) ==
    /\ fetch[f].stage = "done"
    /\ SetFetch(f, [stage |-> "idle", cert |-> NoValue, id |-> NoValue])
    /\ UNCHANGED <<tlsCfg, ca, crl, hs, changes>>

-----------------------------------------------------------------------------
(* Revocation lists                                                        *)

\* The lists are dropped before the file is parsed.
LoadCrlDropped(ders, file) == IF file.kind \in {"list", "broken"} THEN (IF file.kind = "list" THEN file.revoked ELSE {}) ELSE ders

\* load_crl: a file that cannot be read or parsed leaves the lists as they are.
LoadCrl(ders, file) == IF file.kind = "list" THEN file.revoked ELSE ders

ReplaceCrl(file) ==
    /\ changes < MaxFileChanges /\ file # crl.file
    /\ changes' = changes + 1
    /\ crl' = [crl EXCEPT !.file = file, !.event = TRUE]
    /\ UNCHANGED <<tlsCfg, ca, fetch, hs>>

\* start_file_watcher's callback
CrlWatcher ==
    /\ crl.on /\ crl.event
    /\ crl' = [crl EXCEPT !.event = FALSE, !.ders = LoadCrl(@, crl.file),
                          !.good = IF crl.file.kind = "list" THEN crl.file.revoked ELSE @]
    /\ UNCHANGED <<tlsCfg, ca, fetch, hs, changes>>

-----------------------------------------------------------------------------
(* Handshakes                                                              *)

SetHs(h, fields) == hs' = [hs EXCEPT ![h] = Updated(hs[h], fields)]
Lists(ders) == IF ders = NoValue THEN {} ELSE ders

\* InboundAcceptor::accept: every connection has its own server_config, with the
\* lists of get_crl_ders, which are loaded now if they never were.
AcceptInbound(h, peer) ==
    LET ders == IF crl.ders = NoValue THEN LoadCrl(NoValue, crl.file) ELSE crl.ders
    IN /\ hs[h].stage = "idle"
       /\ SetHs(h, [stage |-> "verify", side |-> "inbound", peer |-> peer, crls |-> IF crl.on THEN Lists(ders) ELSE {},
                    due |-> IF crl.on /\ ~crl.event THEN crl.good ELSE {}])
       /\ crl' = [crl EXCEPT !.ders = IF crl.on THEN ders ELSE @]
       /\ UNCHANGED <<tlsCfg, ca, fetch, changes>>

ConnectOutbound(h, peer, want) ==
    /\ hs[h].stage = "idle"
    /\ SetHs(h, [stage |-> "verify", side |-> "outbound", peer |-> peer, want |-> want])
    /\ UNCHANGED <<tlsCfg, ca, fetch, crl, changes>>

ManagementCall(h, peer) ==
    /\ hs[h].stage = "idle"
    /\ SetHs(h, [stage |-> "verify", side |-> "management", peer |-> peer])
    /\ UNCHANGED <<tlsCfg, ca, fetch, crl, changes>>

VerifyTrustDomain(cert) ==
    tlsCfg.ownDomain = NoValue \/ \E i \in Identities(cert) : i.td = tlsCfg.ownDomain

VerifyFullSan(cert, want) == \E i \in Identities(cert) : i \in want

\* authorize_certificate: a URI or DNS name of the allowed ones.
AuthorizeCertificate(cert) == \E n \in Range(cert.sans) : n.type \in {"URI", "DNS"} /\ n.text \in tlsCfg.allowed

SignedAndValid(cert) == cert.root \in {0} /\ ~cert.expired

Verified(h) ==
    LET cert == hs[h].peer
    IN /\ SignedAndValid(cert)
       /\ CASE hs[h].side = "inbound" -> cert.serial \notin hs[h].crls /\ VerifyTrustDomain(cert)
            [] hs[h].side = "outbound" -> VerifyFullSan(cert, hs[h].want)
            [] OTHER -> AuthorizeCertificate(cert)

Verify(h) ==
    /\ hs[h].stage = "verify"
    /\ SetHs(h, IF Verified(h) THEN [stage |-> "up", src |-> IdentityFromConnection(hs[h].peer)] ELSE [stage |-> "refused"])
    /\ UNCHANGED <<tlsCfg, ca, fetch, crl, changes>>

CaNext ==
    \/ \E v \in Roots, ok \in BOOLEAN : RotateRoot(v, ok)
    \/ RootWatcher
    \/ \E f \in Fetches :
        \/ \E id \in Requested : FetchCertificate(f, id)
        \/ RebuildChannel(f) \/ StoreClient(f) \/ CloneClient(f) \/ CaFails(f) \/ FetchAgain(f)
        \/ \E serving \in Roots, chain \in Responses : CaResponds(f, serving, chain)

PeersNext ==
    \/ \E file \in CrlFiles : ReplaceCrl(file)
    \/ CrlWatcher
    \/ \E h \in Handshakes :
        \/ \E peer \in Peers : AcceptInbound(h, peer) \/ ManagementCall(h, peer)
        \/ \E peer \in Peers, id \in Requested : ConnectOutbound(h, peer, {id})
        \/ Verify(h)

-----------------------------------------------------------------------------
(* Properties                                                              *)

\* Once the watcher has spoken and the fetches that answer it are over, the CA is
\* asked over a channel with the root that is on disk, or the flag is still up for
\* the next fetch: a failed rebuild is not forgotten.  Two things may leave an old
\* root behind until the file changes again (gap): rebuilds that overlap, and a
\* change before the watcher was started (fetch_certificate, RootCertManager).
RootCurrent ==
    ~ca.told /\ ~ca.dirty /\ Rebuilding = {} /\ ~ca.gap => ca.ok /\ ca.channel = ca.file

\* A certificate that the manager gets is for the identity it asked for when the CA
\* is asked to impersonate, is due for refresh within its validity, and the two
\* computations of that moment agree (fetch_certificate, refresh_at,
\* get_duration_until_refresh).
CertificatesSound ==
    \A f \in Fetches : fetch[f].cert # NoValue /\ ~fetch[f].cert.err =>
         LET c == fetch[f].cert.leaf
         IN /\ tlsCfg.impersonate => IdentityFromConnection(c) = fetch[f].id
            /\ c.nb <= c.na => RefreshAt(c) \in c.nb..c.na
            /\ \A now \in 0..c.na : DurationUntilRefresh(c, now) = IF now < c.nb \/ now > RefreshAt(c) THEN 0 ELSE RefreshAt(c) - now

\* A peer is let in only with a certificate that names what was expected of it: an
\* identity of our trust domain, and it is on no list that was last read without
\* error, however the file was broken since; a server has one of the identities
\* that were asked for.  The identity it is known by is that one if the certificate
\* names a single one, as it must under SPIFFE; of several the verifiers look for
\* any and identity_from_connection takes the first (verify_trust_domain,
\* verify_full_san, authorize_certificate).
PeersSound ==
    \A h \in Handshakes : hs[h].stage = "up" =>
         LET ids == Identities(hs[h].peer)
             single == \A i, j \in ids : i = j
         IN CASE hs[h].side = "inbound" ->
                   /\ tlsCfg.ownDomain # NoValue => hs[h].src \in ids /\ \E i \in ids : i.td = tlsCfg.ownDomain
                   /\ tlsCfg.ownDomain # NoValue /\ single => hs[h].src.td = tlsCfg.ownDomain
                   /\ hs[h].peer.serial \notin hs[h].due
              [] hs[h].side = "outbound" ->
                   hs[h].src \in ids /\ (single => hs[h].src \in hs[h].want) /\ ids \cap hs[h].want # {}
              [] OTHER -> \E n \in Range(hs[h].peer.sans) : n.text \in tlsCfg.allowed

\* What credentials prove is what was asked of them: the certificates we are issued,
\* those of our peers, and the CA that issues is asked under the current root
\* (CaClient, the verifiers of tls/workload.rs and tls/management.rs).
CredentialsSound == RootCurrent /\ CertificatesSound /\ PeersSound
=============================================================================
