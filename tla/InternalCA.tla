------------------------------ MODULE InternalCA ------------------------------
(***************************************************************************)
(* The internal certificate authority of LinkHosting in production mode:   *)
(* its key and certificate, which the first request that needs them        *)
(* creates, and the key and certificate of every site, signed by it.       *)
(* Certificates are asked for through the REST API (one thread per         *)
(* request) and the panel (its event loop); whoever downloads the root     *)
(* certificate may create the CA as well.  Nobody takes a lock, and every  *)
(* file is truncated first and written afterwards, in place, under a       *)
(* running nginx.                                                          *)
(*                                                                         *)
(* A CA certificate is identified with the key it certifies: one is made   *)
(* for each key.  A key that nobody refers to any more stands for a new    *)
(* one.  The operator who rotates the CA (docs/ca-trust.md) is taken not   *)
(* to hit the instant between the truncation of a CA file and its writing. *)
(***************************************************************************)

CONSTANTS
  Sites,      \* sites that ask for certificates
  CaKeys,     \* RSA keys of the authority
  SiteKeys,   \* RSA keys of sites
  NoKey, NoSite,
  Missing,    \* a file that is not there
  Torn,       \* a file that was truncated: nothing can be loaded from it
  Threads,    \* threads of the panel process that serve the REST API
  Panel,      \* its event loop, which serves /panel
  Events      \* what the environment may do in this instance

PossibleEvents ==
  {"restart",   \* the panel process is restarted
   "disk",      \* the disk fills up: a file is truncated and not written
   "rotate"}    \* the operator deletes ca.key and ca.crt, one after the other

Authority == [key : CaKeys \cup {NoKey}, cert : CaKeys \cup {NoKey}]
NoCa == [key |-> NoKey, cert |-> NoKey]

\* A site certificate: whose it is, the CA key that signed it, the CA certificate appended to it.
Certificates == [key : SiteKeys, signer : CaKeys, chain : CaKeys]

ASSUME InternalCAAssumption ==
  /\ NoKey \notin CaKeys \cup SiteKeys
  /\ Missing # Torn /\ {Missing, Torn} \cap (CaKeys \cup SiteKeys \cup Certificates) = {}
  /\ NoSite \notin Sites
  /\ Panel \notin Threads
  /\ Events \subseteq PossibleEvents

Requests == Threads \cup {Panel}

VARIABLES
  caKey, caCert,          \* ca.key; ca.crt, identified with the key it certifies
  keyFile, certFile,      \* key.pem and cert.pem of each site
  rows,                   \* the Certificate rows of each site, named after the key they were issued for
  rotation,               \* the operator has deleted ca.key and not yet ca.crt
  hpc, hsite, hca, hkey, hrows,  \* each handler: next step, site, CA in hand, site key, rows it deletes
  roots,                  \* history: root certificates downloaded, without clouding, since the CA was last deleted
  clouded,                \* history: requests that met another one, or the operator, at work
  caTrust, pairTrust, vouched  \* history: see CaIsUsable, PairsBelong, ClientsTrustSites

caVars   == <<caKey, caCert>>
siteVars == <<keyFile, certFile, rows>>
reqVars  == <<hpc, hsite, hca, hkey, hrows>>
history  == <<roots, clouded, caTrust, pairTrust, vouched>>
vars     == <<caVars, siteVars, rotation, reqVars, history>>

Init ==
  /\ caKey = Missing /\ caCert = Missing
  /\ keyFile = [s \in Sites |-> Missing] /\ certFile = [s \in Sites |-> Missing]
  /\ rows = [s \in Sites |-> {}]
  /\ rotation = "no"
  /\ hpc = [a \in Requests |-> "idle"] /\ hsite = [a \in Requests |-> NoSite]
  /\ hca = [a \in Requests |-> NoCa] /\ hkey = [a \in Requests |-> NoKey]
  /\ hrows = [a \in Requests |-> {}]
  /\ roots = {} /\ clouded = {}
  /\ caTrust = TRUE /\ pairTrust = [s \in Sites |-> TRUE] /\ vouched = [s \in Sites |-> FALSE]

-----------------------------------------------------------------------------
(***************************************************************************)
(* The life of a request.                                                  *)
(***************************************************************************)
CreatingSteps == {"openCaKey", "writeCaKey", "openCaCert", "writeCaCert"}
WritingSteps  == {"openKey", "writeKey", "openCert", "writeCert"}
IssuingSteps  == WritingSteps \cup {"delete", "commit"}

Creators == {a \in Requests : hpc[a] \in CreatingSteps}
Writers(s) == {a \in Requests : hsite[a] = s /\ hpc[a] \in WritingSteps}
Issuers(s) == {a \in Requests : hsite[a] = s /\ hpc[a] \in IssuingSteps}

Step(a, pc) == hpc' = [hpc EXCEPT ![a] = pc] /\ UNCHANGED <<hsite, hca, hkey, hrows>>

\* The requests in D end.
End(D) ==
  /\ hpc' = [a \in Requests |-> IF a \in D THEN "idle" ELSE hpc[a]]
  /\ hsite' = [a \in Requests |-> IF a \in D THEN NoSite ELSE hsite[a]]
  /\ hca' = [a \in Requests |-> IF a \in D THEN NoCa ELSE hca[a]]
  /\ hkey' = [a \in Requests |-> IF a \in D THEN NoKey ELSE hkey[a]]
  /\ hrows' = [a \in Requests |-> IF a \in D THEN {} ELSE hrows[a]]
  /\ clouded' = clouded \ D

Hold(a, key, cert) == hca' = [hca EXCEPT ![a] = [key |-> key, cert |-> cert]]

\* With the CA in hand a download answers, an issue goes on to sign.
UseCa(a, cert) ==
  \/ /\ hsite[a] # NoSite
     /\ hpc' = [hpc EXCEPT ![a] = "sign"]
     /\ UNCHANGED <<hsite, hkey, hrows, roots, clouded>>
  \/ /\ hsite[a] = NoSite
     /\ roots' = IF a \in clouded THEN roots ELSE roots \cup {cert}
     /\ End({a})

-----------------------------------------------------------------------------
(***************************************************************************)
(* _ensure_ca.                                                             *)
(***************************************************************************)

\* A CA key nobody refers to; generating one of 4096 bits takes a while.
FreshCaKeys ==
  CaKeys \ ({caKey, caCert} \cup roots
            \cup UNION {{hca[a].key, hca[a].cert} : a \in Requests}
            \cup UNION {{certFile[s].signer, certFile[s].chain} :
                          s \in {r \in Sites : certFile[r] \in Certificates}})

\* A request (for the root certificate if s is NoSite) finds the CA complete and loads it,
\* or makes a new one.
Ask(a, s) ==
  /\ hpc[a] = "idle"
  /\ s = NoSite => a # Panel
  /\ hsite' = [hsite EXCEPT ![a] = s]
  /\ \/ /\ caKey # Missing /\ caCert # Missing
        /\ hpc' = [hpc EXCEPT ![a] = "loadKey"]
        /\ clouded' = IF Creators = {} THEN clouded ELSE clouded \cup {a}
        /\ UNCHANGED <<hca, caTrust>>
     \/ /\ caKey = Missing \/ caCert = Missing
        /\ \E k \in FreshCaKeys : Hold(a, k, k)
        /\ hpc' = [hpc EXCEPT ![a] = "openCaKey"]
        /\ IF Creators = {}
             THEN UNCHANGED <<clouded, caTrust>>
             ELSE clouded' = clouded \cup Creators \cup {a} /\ caTrust' = FALSE
  /\ UNCHANGED <<hkey, hrows, caVars, siteVars, rotation, roots, pairTrust, vouched>>

\* Loading what is not a PEM file raises, and so does a file that has just been deleted.
LoadKey(a) ==
  /\ hpc[a] = "loadKey"
  /\ \/ /\ caKey \in CaKeys
        /\ Hold(a, caKey, NoKey)
        /\ hpc' = [hpc EXCEPT ![a] = "loadCert"]
        /\ UNCHANGED <<hsite, hkey, hrows, clouded>>
     \/ caKey \notin CaKeys /\ End({a})
  /\ UNCHANGED <<caVars, siteVars, rotation, roots, caTrust, pairTrust, vouched>>

LoadCert(a) ==
  /\ hpc[a] = "loadCert"
  /\ \/ /\ caCert \in CaKeys
        /\ UseCa(a, caCert)
        /\ hsite[a] # NoSite => Hold(a, hca[a].key, caCert)
     \/ caCert \notin CaKeys /\ End({a}) /\ UNCHANGED roots
  /\ UNCHANGED <<caVars, siteVars, rotation, caTrust, pairTrust, vouched>>

\* Mutant: a key that is there is kept.
OpenCaKeyIfMissing(a) ==
  /\ hpc[a] = "openCaKey"
  /\ \/ caKey = Missing /\ caKey' = Torn /\ Step(a, "writeCaKey")
     \/ caKey # Missing /\ Step(a, "openCaCert") /\ UNCHANGED caKey
  /\ UNCHANGED <<caCert, siteVars, rotation, history>>

OpenCaKey(a) ==
  /\ hpc[a] = "openCaKey"
  /\ caKey' = Torn
  /\ Step(a, "writeCaKey")
  /\ UNCHANGED <<caCert, siteVars, rotation, history>>

WriteCaKey(a) ==
  /\ hpc[a] = "writeCaKey"
  /\ caKey' = hca[a].key
  /\ Step(a, "openCaCert")
  /\ UNCHANGED <<caCert, siteVars, rotation, history>>

OpenCaCert(a) ==
  /\ hpc[a] = "openCaCert"
  /\ caCert' = Torn
  /\ Step(a, "writeCaCert")
  /\ UNCHANGED <<caKey, siteVars, rotation, history>>

WriteCaCert(a) ==
  /\ hpc[a] = "writeCaCert"
  /\ caCert' = hca[a].cert
  /\ UseCa(a, hca[a].cert)
  /\ hsite[a] # NoSite => UNCHANGED hca
  /\ UNCHANGED <<caKey, siteVars, rotation, caTrust, pairTrust, vouched>>

-----------------------------------------------------------------------------
(***************************************************************************)
(* issue_cert and the routes that call it.                                 *)
(***************************************************************************)

FreshSiteKeys ==
  SiteKeys \ ({keyFile[s] : s \in Sites} \cup {hkey[a] : a \in Requests}
              \cup {certFile[s].key : s \in {r \in Sites : certFile[r] \in Certificates}}
              \cup UNION {rows[s] : s \in Sites} \cup UNION {hrows[a] : a \in Requests})

\* Generate the site's key and sign its certificate, in memory.
Sign(a) ==
  /\ hpc[a] = "sign"
  /\ \E x \in FreshSiteKeys : hkey' = [hkey EXCEPT ![a] = x]
  /\ hpc' = [hpc EXCEPT ![a] = "openKey"]
  /\ IF Issuers(hsite[a]) = {}
       THEN UNCHANGED <<clouded, pairTrust>>
       ELSE /\ clouded' = clouded \cup Issuers(hsite[a]) \cup {a}
            /\ pairTrust' = [pairTrust EXCEPT ![hsite[a]] = FALSE]
  /\ vouched' = [vouched EXCEPT ![hsite[a]] = @ /\ a \notin clouded]
  /\ UNCHANGED <<hsite, hca, hrows, caVars, siteVars, rotation, roots, caTrust>>

OpenKey(a) ==
  /\ hpc[a] = "openKey"
  /\ keyFile' = [keyFile EXCEPT ![hsite[a]] = Torn]
  /\ Step(a, "writeKey")
  /\ UNCHANGED <<certFile, rows, caVars, rotation, history>>

\* Mutant: the key of an earlier certificate is kept.
WriteKeyOnce(a) ==
  /\ hpc[a] = "writeKey"
  /\ keyFile' = [keyFile EXCEPT ![hsite[a]] =
                   IF certFile[hsite[a]] \in Certificates THEN certFile[hsite[a]].key ELSE hkey[a]]
  /\ Step(a, "openCert")
  /\ UNCHANGED <<certFile, rows, caVars, rotation, history>>

WriteKey(a) ==
  /\ hpc[a] = "writeKey"
  /\ keyFile' = [keyFile EXCEPT ![hsite[a]] = hkey[a]]
  /\ Step(a, "openCert")
  /\ UNCHANGED <<certFile, rows, caVars, rotation, history>>

OpenCert(a) ==
  /\ hpc[a] = "openCert"
  /\ certFile' = [certFile EXCEPT ![hsite[a]] = Torn]
  /\ Step(a, "writeCert")
  /\ UNCHANGED <<keyFile, rows, caVars, rotation, history>>

WriteCert(a) ==
  /\ hpc[a] = "writeCert"
  /\ certFile' = [certFile EXCEPT ![hsite[a]] =
                    [key |-> hkey[a], signer |-> hca[a].key, chain |-> hca[a].cert]]
  /\ Step(a, "delete")
  /\ UNCHANGED <<keyFile, rows, caVars, rotation, history>>

\* The DELETE reaches the rows that are committed when it runs.
DeleteRows(a) ==
  /\ hpc[a] = "delete"
  /\ hrows' = [hrows EXCEPT ![a] = rows[hsite[a]]]
  /\ hpc' = [hpc EXCEPT ![a] = "commit"]
  /\ UNCHANGED <<hsite, hca, hkey, caVars, siteVars, rotation, history>>

\* Commit the new row in place of those.  The vhost the routes write next, if the site is
\* deployed, is a matter of SiteDeploy and PlainSite.
Commit(a) ==
  /\ hpc[a] = "commit"
  /\ rows' = [rows EXCEPT ![hsite[a]] = (@ \ hrows[a]) \cup {hkey[a]}]
  /\ IF a \in clouded
       THEN UNCHANGED <<pairTrust, vouched>>
       ELSE /\ pairTrust' = [pairTrust EXCEPT ![hsite[a]] = TRUE]
            /\ vouched' = [vouched EXCEPT ![hsite[a]] = caTrust]
  /\ End({a})
  /\ UNCHANGED <<keyFile, certFile, caVars, rotation, roots, caTrust>>

-----------------------------------------------------------------------------
(***************************************************************************)
(* The environment.                                                        *)
(***************************************************************************)

\* Requests die.  One that was creating the CA does no harm while there is no ca.crt: the
\* next request starts over.
Die(D) ==
  /\ End(D)
  /\ caTrust' = (caTrust /\ ((D \cap Creators) = {} \/ caCert = Missing))
  /\ pairTrust' = [s \in Sites |-> pairTrust[s] /\
       ~\E a \in D : hsite[a] = s /\ hpc[a] \in WritingSteps \ {"openKey"}]
  /\ UNCHANGED <<caVars, siteVars, rotation, roots, vouched>>

Restart ==
  /\ "restart" \in Events
  /\ \E a \in Requests : hpc[a] # "idle"
  /\ Die(Requests)

DiskFull(a) ==
  /\ "disk" \in Events
  /\ hpc[a] \in {"writeCaKey", "writeCaCert", "writeKey", "writeCert"}
  /\ Die({a})

\* What was vouched for by a CA that is being deleted is no longer, nor is what is under way.
Forget ==
  /\ \A a \in Requests : hpc[a] \notin {"writeCaKey", "writeCaCert"}
  /\ roots' = {}
  /\ vouched' = [s \in Sites |-> FALSE]
  /\ clouded' = clouded \cup {a \in Requests : hpc[a] # "idle"}
  /\ caTrust' = (Creators = {})
  /\ UNCHANGED <<reqVars, siteVars, pairTrust>>

DeleteCaKey ==
  /\ "rotate" \in Events /\ rotation = "no" /\ caKey # Missing
  /\ caKey' = Missing /\ rotation' = "half"
  /\ Forget
  /\ UNCHANGED caCert

DeleteCaCert ==
  /\ rotation = "half"
  /\ caCert' = Missing /\ rotation' = "no"
  /\ Forget
  /\ UNCHANGED caKey

-----------------------------------------------------------------------------
EnsureCa(a) ==
  \/ \E s \in Sites \cup {NoSite} : Ask(a, s)
  \/ LoadKey(a) \/ LoadCert(a)
  \/ OpenCaKey(a) \/ WriteCaKey(a) \/ OpenCaCert(a) \/ WriteCaCert(a)

Issue(a) ==
  \/ Sign(a) \/ OpenKey(a) \/ WriteKey(a) \/ OpenCert(a) \/ WriteCert(a)
  \/ DeleteRows(a) \/ Commit(a)

Environment ==
  \/ Restart \/ (\E a \in Requests : DiskFull(a)) \/ DeleteCaKey \/ DeleteCaCert

Next == (\E a \in Requests : EnsureCa(a) \/ Issue(a)) \/ Environment

Spec == Init /\ [][Next]_vars

-----------------------------------------------------------------------------
HandlerSteps == {"idle", "loadKey", "loadCert", "sign"} \cup CreatingSteps \cup IssuingSteps

\* Every variable holds a value of its kind.
TypeOK ==
  /\ caKey \in CaKeys \cup {Missing, Torn} /\ caCert \in CaKeys \cup {Missing, Torn}
  /\ keyFile \in [Sites -> SiteKeys \cup {Missing, Torn}]
  /\ certFile \in [Sites -> Certificates \cup {Missing, Torn}]
  /\ rows \in [Sites -> SUBSET SiteKeys]
  /\ rotation \in {"no", "half"}
  /\ hpc \in [Requests -> HandlerSteps] /\ hsite \in [Requests -> Sites \cup {NoSite}]
  /\ hca \in [Requests -> Authority] /\ hkey \in [Requests -> SiteKeys \cup {NoKey}]
  /\ hrows \in [Requests -> SUBSET SiteKeys]
  /\ roots \subseteq CaKeys /\ clouded \subseteq Requests
  /\ caTrust \in BOOLEAN /\ pairTrust \in [Sites -> BOOLEAN] /\ vouched \in [Sites -> BOOLEAN]

\* The CA on disk is a key with its own certificate, or the next request will make one, and
\* every root certificate clients have downloaded is the one on disk: as long as no two
\* requests created it at the same time and none died, or found the disk full, behind a
\* ca.crt that is there (_ensure_ca).  In particular a first creation interrupted anywhere
\* before ca.crt is opened repairs itself.
CaIsUsable ==
  caTrust /\ Creators = {} =>
    /\ \/ caKey = Missing \/ caCert = Missing
       \/ caKey \in CaKeys /\ caKey = caCert
    /\ roots \subseteq {caCert}

\* Whenever nobody is writing them, the key and the certificate nginx finds for a site belong
\* together, so that a reload for any other site does not fail over this one, and the site
\* has one Certificate row: unless two requests for this site met, or one died between
\* truncating key.pem and completing cert.pem (issue_cert).
PairsBelong ==
  \A s \in Sites : pairTrust[s] /\ Issuers(s) = {} =>
    /\ \/ certFile[s] = Missing /\ keyFile[s] = Missing /\ rows[s] = {}
       \/ certFile[s] \in Certificates /\ keyFile[s] = certFile[s].key
    /\ \A r1, r2 \in rows[s] : r1 = r2

\* A client that trusts the root it downloaded accepts every site whose certificate was
\* issued under that CA by a request that met nobody: the key that signed it, the CA
\* certificate sent along, the one on disk and every one downloaded are the same CA, whatever
\* other requests did since (docs/ca-trust.md).
ClientsTrustSites ==
  \A s \in Sites : vouched[s] /\ pairTrust[s] /\ Writers(s) = {} =>
    /\ certFile[s] \in Certificates
    /\ certFile[s].signer = certFile[s].chain
    /\ certFile[s].chain = caCert /\ caKey = caCert
    /\ roots \subseteq {caCert}

(***************************************************************************)
(* Why these hold: Inv is inductive.                                       *)
(***************************************************************************)
Missed == caKey = Missing \/ caCert = Missing

PairIsGood(s) ==
  \/ certFile[s] = Missing /\ keyFile[s] = Missing /\ rows[s] = {}
  \/ certFile[s] \in Certificates /\ keyFile[s] = certFile[s].key

\* What a request has in hand at each of its steps.
RequestInv ==
  \A a \in Requests :
    /\ hpc[a] = "idle" => a \notin clouded
    /\ hpc[a] \in CreatingSteps => hca[a].key \in CaKeys /\ hca[a].cert = hca[a].key
    /\ hpc[a] = "loadCert" => hca[a].key \in CaKeys
    /\ hpc[a] \in {"sign"} \cup IssuingSteps =>
         hsite[a] \in Sites /\ hca[a].key \in CaKeys /\ hca[a].cert \in CaKeys
    /\ hpc[a] \in IssuingSteps => hkey[a] \in SiteKeys

\* Nobody but a lone, unclouded creator keeps the CA from being complete or absent, and an
\* unclouded request has the CA on disk in hand.
CaInv ==
  caTrust =>
    /\ Creators = {} => Missed \/ (caKey \in CaKeys /\ caKey = caCert)
    /\ roots \subseteq {caCert}
    /\ Missed \/ Creators # {} => roots = {}
    /\ \A a \in Creators :
         /\ a \notin clouded /\ Creators = {a}
         /\ hpc[a] \in {"openCaCert", "writeCaCert"} => caKey = hca[a].key
    /\ \A a \in Requests \ clouded :
         /\ hpc[a] \in {"loadKey", "loadCert", "sign"} \cup IssuingSteps =>
              Creators = {} /\ ~Missed
         /\ hpc[a] \in {"loadCert", "sign"} \cup IssuingSteps => hca[a].key = caKey
         /\ hpc[a] \in {"sign"} \cup IssuingSteps => hca[a].cert = caCert

\* The request that writes the files of a site is alone and leaves them as it goes.
PairInv ==
  /\ \A a \in Requests :
       hpc[a] \in IssuingSteps /\ (a \notin clouded \/ pairTrust[hsite[a]]) =>
         /\ Issuers(hsite[a]) = {a}
         /\ hpc[a] \in {"openCert", "writeCert", "delete", "commit"} =>
              keyFile[hsite[a]] = hkey[a]
         /\ hpc[a] \in {"delete", "commit"} =>
              certFile[hsite[a]] = [key |-> hkey[a], signer |-> hca[a].key, chain |-> hca[a].cert]
         /\ hpc[a] = "commit" => rows[hsite[a]] = hrows[a]
  /\ \A s \in Sites : pairTrust[s] =>
       /\ (\A a \in Issuers(s) : hpc[a] = "openKey") => PairIsGood(s)
       /\ \A r1, r2 \in rows[s] : r1 = r2

\* A site that is vouched for was signed by the CA on disk, and so will be the certificate
\* being written for it.
VouchInv ==
  \A s \in Sites : vouched[s] =>
    /\ caTrust /\ Creators = {} /\ ~Missed
    /\ pairTrust[s] =>
         /\ \A a \in Issuers(s) : a \notin clouded
         /\ (\A a \in Issuers(s) : hpc[a] # "writeCert") =>
              certFile[s] \in Certificates /\ certFile[s].signer = caKey /\ certFile[s].chain = caCert

Inv == TypeOK /\ RequestInv /\ CaInv /\ PairInv /\ VouchInv
=============================================================================
