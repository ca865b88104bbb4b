---------------------------- MODULE Certificates ----------------------------
(***************************************************************************)
(* The certificates of the proxy: what the wizard of the installation      *)
(* decides, what a load or a reload of the namespace provides, what the    *)
(* renewal service of a namespace with Let's Encrypt does beside them.     *)
(*                                                                         *)
(* There are two pairs of files, one from Let's Encrypt and one that is    *)
(* self-signed, written key first.  That a certificate is there is what    *)
(* everybody looks at, and nobody looks at the key.                        *)
(***************************************************************************)
EXTENDS Naturals, FiniteSets

CONSTANTS
  Hosts,
  None,
  CertFaults   \* subset of {"crash", "overlap", "disk"}: what else may go wrong

VARIABLES
  cfg,     \* the TLS part of namespace.yml
  file,    \* of both pairs, the key and the certificate
  flow,    \* who is obtaining or writing, and where it is
  marker,  \* whether the rate limit of Let's Encrypt is marked
  proxy,   \* the pair the proxy was started with, and whether it was whole then
  up       \* whether the daemon is

vars == <<cfg, file, flow, marker, proxy, up>>

Flows == {"wizard", "load", "renewal"}
Pairs == {"acme", "self"}
NoFlow == [pc |-> "idle", pair |-> None, host |-> None]
NoProxy == [pair |-> None, whole |-> TRUE]

\* What is left of a certificate: more than half of its time, less, nothing.
Fresh == 2
Cert(k, h) == [key |-> k, host |-> h, left |-> Fresh]

\* A key is named by who made it, and is old when the same has made another.
Pair(k, c) == [key |-> k, cert |-> c]
Whole(files, p) == files[p].cert # None /\ files[p].cert.key = files[p].key

Http == [tls |-> FALSE, acme |-> FALSE, host |-> None, path |-> None]
Acme(h) == [tls |-> TRUE, acme |-> TRUE, host |-> h, path |-> None]
\* The wizard stores the paths of the pair it has made, the UI leaves them to the daemon.
SelfSigned(h, path) == [tls |-> TRUE, acme |-> FALSE, host |-> h, path |-> path]
Configs == {Http} \cup {Acme(h) : h \in Hosts} \cup {SelfSigned(h, None) : h \in Hosts}

Init ==
  /\ cfg = Http
  /\ file = [p \in Pairs |-> Pair(None, None)]
  /\ flow = [f \in Flows |-> NoFlow]
  /\ marker = FALSE /\ proxy = NoProxy /\ up = FALSE

Idle == \A f \in Flows : flow[f].pc = "idle"
\* A reload does not wait for a renewal, nor a renewal for a reload.
MayBegin(f) == flow[f].pc = "idle" /\ ("overlap" \in CertFaults \/ Idle)

Loaded(p, files) == [pair |-> p, whole |-> Whole(files, p)]

\* Mutation of FirstFile: the certificate before the key.
FirstFileCert == "cert"
\* ObtainCertificate and GenerateSelfSignedCert: the key first, for the
\* certificate to say that the pair is whole.
FirstFile == "key"
Write(f, p, h) == flow' = [flow EXCEPT ![f] = [pc |-> FirstFile, pair |-> p, host |-> h]]
Order(f, h) == flow' = [flow EXCEPT ![f] = [pc |-> "order", pair |-> "acme", host |-> h]]
End(f) == flow' = [flow EXCEPT ![f] = NoFlow]

\* CertMatchesHost: for this host and not expired; the key is not read.
CertMatchesHost(h, files) ==
  /\ files["acme"].cert # None
  /\ files["acme"].cert.host = h /\ files["acme"].cert.left > 0
-----------------------------------------------------------------------------
(* The wizard, before there is a daemon.                                   *)

\* generateSelfSignedCert of the wizard: whatever is there.
WizardSelfSigns(h) == Write("wizard", "self", h) /\ UNCHANGED cfg

\* TryStaging: whether the host can be certified, for all the wizard knows.
TryStaging == BOOLEAN

\* tryLEWithRecovery: again, another host, or back to the choice.
TryLEWithRecovery(h, staging) == staging /\ cfg' = Acme(h) /\ UNCHANGED flow
ConfigureCustomCert(h) == cfg' = SelfSigned(h, "custom") /\ UNCHANGED flow

\* configureTLS: the automatic choice becomes a concrete one and is stored as such.
ConfigureTLS(h, choice, staging) ==
  /\ ~up /\ MayBegin("wizard")
  /\ \/ choice = "http" /\ cfg' = Http /\ UNCHANGED flow
     \/ choice = "custom" /\ ConfigureCustomCert(h)
     \/ choice = "trusted" /\ TryLEWithRecovery(h, staging)
     \/ choice = "auto" /\ staging /\ ~marker /\ cfg' = Acme(h) /\ UNCHANGED flow
     \/ choice = "auto" /\ (~staging \/ marker) /\ WizardSelfSigns(h)
     \/ choice = "self" /\ WizardSelfSigns(h)
  /\ UNCHANGED <<file, marker, proxy, up>>

\* The TLS part of namespace.yml is edited, in the form or as text.
EditConfig(c) ==
  /\ Idle /\ c # cfg /\ cfg' = c
  /\ UNCHANGED <<file, flow, marker, proxy, up>>
-----------------------------------------------------------------------------
(* The daemon.                                                             *)

\* The proxy is made with a pair, or without one.
Serve(p) ==
  /\ End("load")
  /\ proxy' = IF p = None THEN NoProxy
              ELSE IF p = "custom" THEN [pair |-> p, whole |-> TRUE]
              ELSE Loaded(p, file)

\* generateSelfSignedCertForConfig: only where there is no certificate.
ProvideSelfSigned ==
  IF file["self"].cert = None THEN Write("load", "self", cfg.host) /\ UNCHANGED proxy
                              ELSE Serve("self")

\* obtainACMECertIfNeeded, and the self-signed pair where nothing is obtained.
ObtainIfNeeded ==
  LET matches == CertMatchesHost(cfg.host, file)
  IN \/ matches /\ Serve("acme")
     \/ ~matches /\ marker /\ ProvideSelfSigned
     \/ ~matches /\ ~marker /\ Order("load", cfg.host) /\ UNCHANGED proxy

\* ensureProxyTLSCerts, of a start or of a reload.
EnsureProxyTLSCerts ==
  /\ MayBegin("load") /\ up' = TRUE
  /\ \/ ~cfg.tls /\ Serve(None)
     \/ cfg.tls /\ ~cfg.acme /\ cfg.path # None /\ Serve(cfg.path)
     \/ cfg.tls /\ ~cfg.acme /\ cfg.path = None /\ ProvideSelfSigned
     \/ cfg.tls /\ cfg.acme /\ ObtainIfNeeded
  /\ UNCHANGED <<cfg, file, marker>>

\* resolveProxyTLSPathsForPlan: what the plan of a reload takes the proxy to be
\* given, from what is there.
PairForPlan ==
  IF ~cfg.tls THEN None
  ELSE IF cfg.path # None THEN cfg.path
  ELSE IF cfg.acme /\ CertMatchesHost(cfg.host, file) THEN "acme"
  ELSE IF None \notin {file["self"].key, file["self"].cert} THEN "self" ELSE None

\* checkAndRenew: a certificate that cannot be read is not renewed, and it is
\* renewed whatever host it is for.
CheckAndRenew ==
  /\ up /\ cfg.acme /\ MayBegin("renewal") /\ ~marker
  /\ file["acme"].cert # None /\ file["acme"].cert.left < Fresh
  /\ Order("renewal", cfg.host)
  /\ UNCHANGED <<cfg, file, marker, proxy, up>>

\* The order is fulfilled, or it is not: the service marks a rate limit, a load
\* does not.
OrderEnds(f) ==
  /\ flow[f].pc = "order"
  /\ \/ Write(f, "acme", flow[f].host) /\ UNCHANGED <<marker, proxy>>
     \/ f = "load" /\ ProvideSelfSigned /\ UNCHANGED marker
     \/ f = "renewal" /\ End(f) /\ marker' \in {marker, TRUE} /\ UNCHANGED proxy
  /\ UNCHANGED <<cfg, file, up>>

\* What follows when the pair is written: the wizard stores the paths, the load
\* gives the proxy the pair that fits, the service restarts the proxy with the
\* pair it has.
Written(f, files) ==
  /\ End(f)
  /\ CASE f = "wizard" -> cfg' = SelfSigned(flow[f].host, "self") /\ UNCHANGED proxy
       [] f = "load" -> proxy' = Loaded(flow[f].pair, files) /\ UNCHANGED cfg
       [] OTHER -> /\ proxy' = IF proxy.pair \in Pairs THEN Loaded(proxy.pair, files) ELSE proxy
                   /\ UNCHANGED cfg

\* AtomicWriteFile, of the one file and then of the other; a self-signed pair
\* that a load cannot write is given to the proxy nevertheless.
Aged(k, f) == IF k = f THEN "old" ELSE k
WithKey(f, pair, first) ==
  Pair(f, IF first /\ pair.cert # None THEN [pair.cert EXCEPT !.key = Aged(@, f)] ELSE pair.cert)
WithCert(f, pair, first) ==
  Pair(IF first THEN Aged(pair.key, f) ELSE pair.key, Cert(f, flow[f].host))
WriteFile(f) ==
  LET p == flow[f].pair
      first == flow[f].pc = FirstFile
      files == [file EXCEPT ![p] = IF flow[f].pc = "key" THEN WithKey(f, @, first)
                                                         ELSE WithCert(f, @, first)]
  IN /\ flow[f].pc \in {"key", "cert"}
     /\ \/ /\ file' = files
           /\ IF first
              THEN /\ flow' = [flow EXCEPT ![f].pc = IF @ = "key" THEN "cert" ELSE "key"]
                   /\ UNCHANGED <<cfg, proxy>>
              ELSE Written(f, files)
        \/ /\ "disk" \in CertFaults /\ f = "load" /\ p = "self"
           /\ Serve("self") /\ UNCHANGED <<file, cfg>>
     /\ UNCHANGED <<marker, up>>

\* A certificate ages, the mark of the rate limit runs out after an hour.
Time ==
  /\ \/ /\ file["acme"].cert # None /\ file["acme"].cert.left > 0
        /\ file' = [file EXCEPT !["acme"].cert.left = @ - 1] /\ UNCHANGED marker
     \/ marker /\ marker' = FALSE /\ UNCHANGED file
  /\ UNCHANGED <<cfg, flow, proxy, up>>

\* The launcher ends, the proxy stays.  It ends between the key and the
\* certificate of a pair that is replaced only where that is a fault.
Replaces(f) ==
  LET pair == file[flow[f].pair]
  IN flow[f].pc \in {"key", "cert"} \ {FirstFile} /\ pair[flow[f].pc] # None
Exit ==
  /\ up \/ ~Idle
  /\ "crash" \in CertFaults \/ \A f \in Flows : ~Replaces(f)
  /\ up' = FALSE /\ flow' = [f \in Flows |-> NoFlow]
  /\ UNCHANGED <<cfg, file, marker, proxy>>

Next ==
  \/ \E h \in Hosts, choice \in {"http", "custom", "trusted", "auto", "self"}, staging \in TryStaging :
       ConfigureTLS(h, choice, staging)
  \/ \E c \in Configs : EditConfig(c)
  \/ EnsureProxyTLSCerts \/ CheckAndRenew
  \/ \E f \in Flows : OrderEnds(f) \/ WriteFile(f)
  \/ Time \/ Exit

Spec == Init /\ [][Next]_vars
-----------------------------------------------------------------------------
\* What the proxy was given is a whole pair: a certificate, and the key of it.
\* The launcher never looks whether they belong together.
PairsAreWhole == proxy.whole

\* The files stay a pair wherever the launcher ends, so that the next start
\* takes what is there.
FilesArePairs == Idle => \A p \in Pairs : file[p].cert # None => Whole(file, p)

\* A load gives the proxy a certificate of Let's Encrypt only for the host of
\* the configuration, and the pair that a plan made now says the next reload gives:
\* where nothing has changed, no plan takes HTTPS away.
LoadGives ==
  [][proxy' # proxy /\ flow["renewal"].pc \notin {"key", "cert"}
       => /\ proxy'.pair = PairForPlan'
          /\ proxy'.pair = "acme" => cfg.acme /\ file'["acme"].cert.host = cfg.host]_vars

CertificatesServe == [](PairsAreWhole /\ FilesArePairs) /\ LoadGives
=============================================================================
