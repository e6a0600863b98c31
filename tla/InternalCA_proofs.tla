-------------------------- MODULE InternalCA_proofs --------------------------
(***************************************************************************)
(* Proofs about InternalCA: for any number of sites and requests, Inv is   *)
(* an invariant, and the three promises of the authority follow from it.   *)
(***************************************************************************)
EXTENDS InternalCA, TLAPS

USE DEF caVars, siteVars, reqVars, history, Requests, Creators, Issuers, Writers,
        CreatingSteps, WritingSteps, IssuingSteps, HandlerSteps, Step, Hold, End, UseCa,
        Authority, NoCa, Missed

\* Nobody has asked for anything yet.
LEMMA InitEstablishes == Init => Inv
<1> SUFFICES ASSUME Init PROVE Inv
  OBVIOUS
<1> USE InternalCAAssumption DEF Init
<1>1. TypeOK
  BY DEF TypeOK, Certificates
<1>2. RequestInv /\ CaInv
  BY DEF RequestInv, CaInv
<1>3. PairInv /\ VouchInv
  BY DEF PairInv, VouchInv, PairIsGood
<1> QED
  BY <1>1, <1>2, <1>3 DEF Inv

LEMMA FreshKeys == FreshCaKeys \subseteq CaKeys /\ FreshSiteKeys \subseteq SiteKeys
BY DEF FreshCaKeys, FreshSiteKeys

\* Every step keeps every variable's kind.
LEMMA TypePreserved == TypeOK /\ RequestInv /\ [Next]_vars => TypeOK'
<1> SUFFICES ASSUME TypeOK, RequestInv, [Next]_vars PROVE TypeOK'
  OBVIOUS
<1> USE InternalCAAssumption DEF TypeOK
<1>1. ASSUME NEW a \in Requests, EnsureCa(a) PROVE TypeOK'
  <2>1. ASSUME NEW s \in Sites \cup {NoSite}, Ask(a, s) PROVE TypeOK'
    <3>1. CASE caKey = Missing \/ caCert = Missing
      <4>1. PICK k \in CaKeys : Hold(a, k, k)
        BY <2>1, <3>1, FreshKeys DEF Ask
      <4>2. hca' \in [Requests -> Authority]
        BY <4>1
      <4>3. clouded' \in SUBSET Requests /\ caTrust' \in BOOLEAN
        <5>1. Creators \subseteq Requests
          OBVIOUS
        <5> HIDE DEF Creators
        <5>2. \/ UNCHANGED <<clouded, caTrust>>
              \/ clouded' = clouded \cup Creators \cup {a} /\ caTrust' = FALSE
          BY <2>1, <3>1 DEF Ask
        <5> QED
          BY <5>1, <5>2
      <4>4. hpc' \in [Requests -> HandlerSteps] /\ hsite' \in [Requests -> Sites \cup {NoSite}]
        BY <2>1, <3>1 DEF Ask
      <4>5. UNCHANGED <<hkey, hrows, caVars, siteVars, rotation, roots, pairTrust, vouched>>
        BY <2>1 DEF Ask
      <4> HIDE DEF Creators, HandlerSteps, Authority
      <4> QED
        BY <4>2, <4>3, <4>4, <4>5
    <3>2. CASE caKey # Missing /\ caCert # Missing
      BY <2>1, <3>2 DEF Ask
    <3> QED
      BY <3>1, <3>2
  <2>2. CASE LoadKey(a)
    BY <2>2 DEF LoadKey
  <2>3. CASE LoadCert(a)
    BY <2>3 DEF LoadCert, RequestInv
  <2>4. CASE OpenCaKey(a)
    BY <2>4 DEF OpenCaKey
  <2>5. CASE WriteCaKey(a)
    BY <2>5 DEF WriteCaKey, RequestInv
  <2>6. CASE OpenCaCert(a)
    BY <2>6 DEF OpenCaCert
  <2>7. CASE WriteCaCert(a)
    BY <2>7 DEF WriteCaCert, RequestInv
  <2> QED
    BY <1>1, <2>1, <2>2, <2>3, <2>4, <2>5, <2>6, <2>7 DEF EnsureCa
<1>2. ASSUME NEW a \in Requests, Issue(a) PROVE TypeOK'
  <2>1. CASE Sign(a)
    <3>1. hkey' \in [Requests -> SiteKeys \cup {NoKey}]
      BY <2>1, FreshKeys DEF Sign
    <3>2. clouded' \in SUBSET Requests
      BY <2>1 DEF Sign
    <3>3. pairTrust' \in [Sites -> BOOLEAN] /\ vouched' \in [Sites -> BOOLEAN]
      BY <2>1 DEF Sign
    <3>4. hpc' \in [Requests -> HandlerSteps]
      BY <2>1 DEF Sign
    <3>5. UNCHANGED <<hsite, hca, hrows, caVars, siteVars, rotation, roots, caTrust>>
      BY <2>1 DEF Sign
    <3> HIDE DEF HandlerSteps, Authority
    <3> QED
      BY <3>1, <3>2, <3>3, <3>4, <3>5
  <2>2. CASE OpenKey(a)
    BY <2>2 DEF OpenKey
  <2>6. CASE WriteKey(a)
    BY <2>6 DEF WriteKey, RequestInv
  <2>7. CASE OpenCert(a)
    BY <2>7 DEF OpenCert
  <2>3. CASE WriteCert(a)
    BY <2>3 DEF WriteCert, RequestInv, Certificates
  <2>4. CASE DeleteRows(a)
    BY <2>4 DEF DeleteRows, RequestInv
  <2>5. CASE Commit(a)
    <3>1. hsite[a] \in Sites /\ hkey[a] \in SiteKeys
      BY <2>5 DEF Commit, RequestInv
    <3>2. rows' \in [Sites -> SUBSET SiteKeys]
      BY <2>5, <3>1 DEF Commit
    <3>3. pairTrust' \in [Sites -> BOOLEAN] /\ vouched' \in [Sites -> BOOLEAN]
      BY <2>5 DEF Commit
    <3>4. End({a}) /\ UNCHANGED <<keyFile, certFile, caVars, rotation, roots, caTrust>>
      BY <2>5 DEF Commit
    <3> QED
      BY <3>2, <3>3, <3>4
  <2> QED
    BY <1>2, <2>1, <2>2, <2>3, <2>4, <2>5, <2>6, <2>7 DEF Issue
<1>3. CASE Environment
  <2>1. ASSUME NEW D \in SUBSET Requests, Die(D) PROVE TypeOK'
    BY <2>1 DEF Die
  <2>2. CASE DeleteCaKey \/ DeleteCaCert
    BY <2>2 DEF DeleteCaKey, DeleteCaCert, Forget
  <2> QED
    BY <1>3, <2>1, <2>2 DEF Environment, Restart, DiskFull
<1>4. CASE UNCHANGED vars
  BY <1>4 DEF vars
<1> QED
  BY <1>1, <1>2, <1>3, <1>4 DEF Next

LEMMA RequestPreserved == TypeOK /\ RequestInv /\ [Next]_vars => RequestInv'
<1> SUFFICES ASSUME TypeOK, RequestInv, [Next]_vars PROVE RequestInv'
  OBVIOUS
<1> USE InternalCAAssumption DEF TypeOK, RequestInv
<1>1. ASSUME NEW a \in Requests, EnsureCa(a) PROVE RequestInv'
  <2>1. ASSUME NEW s \in Sites \cup {NoSite}, Ask(a, s) PROVE RequestInv'
    BY <2>1 DEF Ask, FreshCaKeys
  <2>2. CASE LoadKey(a)
    BY <2>2 DEF LoadKey
  <2>3. CASE LoadCert(a)
    BY <2>3 DEF LoadCert
  <2>4. CASE OpenCaKey(a) \/ WriteCaKey(a) \/ OpenCaCert(a)
    BY <2>4 DEF OpenCaKey, WriteCaKey, OpenCaCert
  <2>5. CASE WriteCaCert(a)
    BY <2>5 DEF WriteCaCert
  <2> QED
    BY <1>1, <2>1, <2>2, <2>3, <2>4, <2>5 DEF EnsureCa
<1>2. ASSUME NEW a \in Requests, Issue(a) PROVE RequestInv'
  <2>1. CASE Sign(a)
    BY <2>1 DEF Sign, FreshSiteKeys
  <2>2. CASE OpenKey(a) \/ WriteKey(a) \/ OpenCert(a) \/ WriteCert(a)
    BY <2>2 DEF OpenKey, WriteKey, OpenCert, WriteCert
  <2>3. CASE DeleteRows(a) \/ Commit(a)
    BY <2>3 DEF DeleteRows, Commit
  <2> QED
    BY <1>2, <2>1, <2>2, <2>3 DEF Issue
<1>3. CASE Environment
  BY <1>3 DEF Environment, Restart, DiskFull, Die, DeleteCaKey, DeleteCaCert, Forget
<1>4. CASE UNCHANGED vars
  BY <1>4 DEF vars
<1> QED
  BY <1>1, <1>2, <1>3, <1>4 DEF Next

\* A request that goes on issuing, or ends, is no concern of the CA's.
LEMMA CaOnward ==
  ASSUME TypeOK, CaInv, NEW a \in Requests, hpc[a] \in {"sign"} \cup IssuingSteps,
         NEW pc \in {"sign"} \cup IssuingSteps, hpc' = [hpc EXCEPT ![a] = pc],
         clouded \subseteq clouded', Creators \cap clouded' = Creators \cap clouded,
         UNCHANGED <<caVars, hca, roots, caTrust>>
  PROVE  CaInv'
<1>1. Creators' = Creators
  BY DEF TypeOK
<1>2. \A b \in Requests \ {a} : hpc'[b] = hpc[b]
  BY DEF TypeOK
<1>3. hpc'[a] = pc
  BY DEF TypeOK
<1> QED
  BY <1>1, <1>2, <1>3 DEF CaInv

LEMMA CaEnding ==
  ASSUME TypeOK, CaInv, NEW D \in SUBSET Requests, End(D), UNCHANGED <<caVars, roots>>,
         caTrust' => caTrust /\ (D \cap Creators = {} \/ caCert = Missing)
  PROVE  CaInv'
<1>1. Creators' = Creators \ D
  BY DEF TypeOK
<1>2. \A b \in D : hpc'[b] = "idle"
  OBVIOUS
<1>3. \A b \in Requests \ D : hpc'[b] = hpc[b] /\ hca'[b] = hca[b] /\ (b \in clouded' <=> b \in clouded)
  OBVIOUS
<1>r. Creators \subseteq Requests
  OBVIOUS
<1> HIDE DEF Creators, End
<1>4. CASE D \cap Creators = {}
  <2>1. Creators' = Creators
    BY <1>1, <1>4
  <2> QED
    BY <1>r, <2>1, <1>2, <1>3, <1>4 DEF CaInv
<1>5. CASE caCert = Missing /\ caTrust
  <2>1. roots = {}
    BY <1>5 DEF CaInv
  <2> QED
    BY <1>r, <1>1, <1>2, <1>3, <1>5, <2>1 DEF CaInv
<1> QED
  BY <1>4, <1>5 DEF CaInv

\* What a creator, or a request with the CA in hand, relies on.
LEMMA CaPreserved == TypeOK /\ RequestInv /\ CaInv /\ [Next]_vars => CaInv'
<1> SUFFICES ASSUME TypeOK, RequestInv, CaInv, [Next]_vars PROVE CaInv'
  OBVIOUS
<1> USE InternalCAAssumption DEF TypeOK, RequestInv, CaInv
<1>1. ASSUME NEW a \in Requests, EnsureCa(a) PROVE CaInv'
  <2>1. ASSUME NEW s \in Sites \cup {NoSite}, Ask(a, s) PROVE CaInv'
    <3>1. CASE caKey = Missing \/ caCert = Missing
      <4>1. PICK k \in CaKeys : Hold(a, k, k)
        BY <2>1, <3>1, FreshKeys DEF Ask
      <4>2. CASE Creators = {} /\ caTrust
        <5>0. hpc[a] = "idle" /\ hpc' = [hpc EXCEPT ![a] = "openCaKey"] /\ UNCHANGED caTrust
          <6> HIDE DEF Creators
          <6> QED
            BY <2>1, <3>1, <4>2 DEF Ask
        <5>1. Creators' = {a} /\ roots = {} /\ a \notin clouded /\ caTrust' = caTrust
          BY <3>1, <4>2, <5>0
        <5>2. \A b \in Requests \ {a} : hpc'[b] = hpc[b] /\ hca'[b] = hca[b]
          BY <2>1, <3>1, <4>1 DEF Ask
        <5>3. \A b \in Requests : hpc[b] \in {"loadKey", "loadCert", "sign"} \cup IssuingSteps =>
                b \in clouded
          BY <3>1, <4>2
        <5>4. hpc'[a] = "openCaKey" /\ UNCHANGED <<caVars, roots, clouded>>
          <6>1. UNCHANGED <<caVars, roots, clouded>>
            <7> HIDE DEF Creators, TypeOK, RequestInv, CaInv
            <7> QED
              BY <2>1, <3>1, <4>2 DEF Ask
          <6> HIDE DEF RequestInv, CaInv
          <6> QED
            BY <5>0, <6>1
        <5> HIDE DEF Creators
        <5> QED
          BY <5>1, <5>2, <5>3, <5>4
      <4>3. CASE ~(Creators = {} /\ caTrust)
        <5>1. ~caTrust'
          BY <2>1, <3>1, <4>3 DEF Ask
        <5> QED
          BY <5>1
      <4> QED
        BY <4>2, <4>3
    <3>2. CASE caKey # Missing /\ caCert # Missing
      <4>1. Creators' = Creators /\ UNCHANGED <<hca, caVars, roots, caTrust>>
        BY <2>1, <3>2 DEF Ask
      <4>2. \A b \in Requests \ {a} : hpc'[b] = hpc[b] /\ (b \in clouded' <=> b \in clouded)
        BY <2>1, <3>2 DEF Ask
      <4>3. hpc'[a] = "loadKey" /\ (Creators # {} => a \in clouded')
        BY <2>1, <3>2 DEF Ask
      <4>4. a \notin Creators /\ Creators \subseteq Requests
        BY <2>1 DEF Ask
      <4> HIDE DEF Creators
      <4> QED
        BY <3>2, <4>1, <4>2, <4>3, <4>4
    <3> QED
      BY <3>1, <3>2
  <2>2. CASE LoadKey(a)
    BY <2>2 DEF LoadKey
  <2>3. CASE LoadCert(a)
    BY <2>3 DEF LoadCert
  <2>4. CASE OpenCaKey(a)
    BY <2>4 DEF OpenCaKey
  <2>5. CASE WriteCaKey(a)
    BY <2>5 DEF WriteCaKey
  <2>6. CASE OpenCaCert(a)
    BY <2>6 DEF OpenCaCert
  <2>7. CASE WriteCaCert(a)
    BY <2>7 DEF WriteCaCert
  <2> QED
    BY <1>1, <2>1, <2>2, <2>3, <2>4, <2>5, <2>6, <2>7 DEF EnsureCa
<1>2. ASSUME NEW a \in Requests, Issue(a) PROVE CaInv'
  <2>1. CASE Sign(a)
    BY <2>1, CaOnward DEF Sign
  <2>2. CASE OpenKey(a) \/ WriteKey(a) \/ OpenCert(a) \/ WriteCert(a)
    <3>1. CASE OpenKey(a)
      BY <3>1, CaOnward DEF OpenKey
    <3>2. CASE WriteKey(a)
      BY <3>2, CaOnward DEF WriteKey
    <3>3. CASE OpenCert(a)
      BY <3>3, CaOnward DEF OpenCert
    <3>4. CASE WriteCert(a)
      BY <3>4, CaOnward DEF WriteCert
    <3> QED
      BY <2>2, <3>1, <3>2, <3>3, <3>4
  <2>3. CASE DeleteRows(a)
    BY <2>3, CaOnward DEF DeleteRows
  <2>4. CASE Commit(a)
    <3>1. End({a}) /\ {a} \cap Creators = {} /\ UNCHANGED <<caVars, roots, caTrust>>
      BY <2>4 DEF Commit
    <3> HIDE DEF End, Creators
    <3> QED
      BY <3>1, CaEnding
  <2> QED
    BY <1>2, <2>1, <2>2, <2>3, <2>4 DEF Issue
<1>3. CASE Environment
  <2>1. CASE Restart
    BY <2>1, CaEnding DEF Restart, Die
  <2>2. ASSUME NEW a \in Requests, DiskFull(a) PROVE CaInv'
    <3>1. End({a}) /\ (caTrust' => caTrust /\ ({a} \cap Creators = {} \/ caCert = Missing))
      BY <2>2 DEF DiskFull, Die
    <3>2. UNCHANGED <<caVars, roots>>
      BY <2>2 DEF DiskFull, Die
    <3> HIDE DEF End, Creators
    <3> QED
      BY <3>1, <3>2, CaEnding
  <2>3. CASE DeleteCaKey \/ DeleteCaCert
    <3>1. Creators' = Creators /\ hpc' = hpc /\ roots' = {} /\ (caTrust' <=> Creators = {})
      BY <2>3 DEF DeleteCaKey, DeleteCaCert, Forget
    <3>2. caKey' = Missing \/ caCert' = Missing
      BY <2>3 DEF DeleteCaKey, DeleteCaCert
    <3>3. \A a \in Requests : hpc[a] # "idle" => a \in clouded'
      BY <2>3 DEF DeleteCaKey, DeleteCaCert, Forget
    <3> HIDE DEF Creators
    <3> QED
      BY <3>1, <3>2, <3>3 DEF Creators
  <2> QED
    BY <1>3, <2>1, <2>2, <2>3 DEF Environment
<1>4. CASE UNCHANGED vars
  BY <1>4 DEF vars
<1> QED
  BY <1>1, <1>2, <1>3, <1>4 DEF Next

\* Whoever writes no file of a site is no concern of the site's pair.
LEMMA PairAside ==
  ASSUME TypeOK, PairInv, NEW a \in Requests,
         hpc[a] \notin IssuingSteps, hpc'[a] \notin IssuingSteps,
         \A b \in Requests \ {a} :
           /\ hpc'[b] = hpc[b] /\ hsite'[b] = hsite[b] /\ hca'[b] = hca[b]
           /\ hkey'[b] = hkey[b] /\ hrows'[b] = hrows[b]
           /\ b \in clouded => b \in clouded',
         UNCHANGED <<siteVars, pairTrust>>
  PROVE  PairInv'
<1>1. \A s \in Sites : Issuers(s)' = Issuers(s)
  OBVIOUS
<1>2. ASSUME NEW b \in Requests, (hpc[b] \in IssuingSteps)' PROVE b # a /\ hsite'[b] = hsite[b]
  BY <1>2
<1> HIDE DEF IssuingSteps
<1> QED
  BY <1>1, <1>2 DEF PairInv, PairIsGood

LEMMA PairPreserved == TypeOK /\ RequestInv /\ PairInv /\ [Next]_vars => PairInv'
<1> SUFFICES ASSUME TypeOK, RequestInv, PairInv, [Next]_vars PROVE PairInv'
  OBVIOUS
<1> USE InternalCAAssumption DEF TypeOK
<1>1. ASSUME NEW a \in Requests, EnsureCa(a) PROVE PairInv'
  <2>1. ASSUME NEW s \in Sites \cup {NoSite}, Ask(a, s) PROVE PairInv'
    BY <2>1, PairAside DEF Ask
  <2>2. CASE LoadKey(a)
    <3>1. hpc'[a] \notin IssuingSteps /\ UNCHANGED <<siteVars, pairTrust>>
      BY <2>2 DEF LoadKey
    <3>2. \A b \in Requests \ {a} :
            /\ hpc'[b] = hpc[b] /\ hsite'[b] = hsite[b] /\ hca'[b] = hca[b]
            /\ hkey'[b] = hkey[b] /\ hrows'[b] = hrows[b]
            /\ b \in clouded => b \in clouded'
      BY <2>2 DEF LoadKey
    <3>3. hpc[a] \notin IssuingSteps
      BY <2>2 DEF LoadKey
    <3> QED
      BY <3>1, <3>2, <3>3, PairAside
  <2>3. CASE LoadCert(a)
    BY <2>3, PairAside DEF LoadCert
  <2>4. CASE OpenCaKey(a)
    BY <2>4, PairAside DEF OpenCaKey
  <2>5. CASE WriteCaKey(a)
    BY <2>5, PairAside DEF WriteCaKey
  <2>6. CASE OpenCaCert(a)
    BY <2>6, PairAside DEF OpenCaCert
  <2>7. CASE WriteCaCert(a)
    BY <2>7, PairAside DEF WriteCaCert
  <2> QED
    BY <1>1, <2>1, <2>2, <2>3, <2>4, <2>5, <2>6, <2>7 DEF EnsureCa
<1>2. ASSUME NEW a \in Requests, Issue(a) PROVE PairInv'
  <2> USE DEF PairInv, PairIsGood
  <2>1. CASE Sign(a)
    BY <2>1 DEF Sign, RequestInv
  <2>2. CASE OpenKey(a)
    BY <2>2 DEF OpenKey, RequestInv
  <2>3. CASE WriteKey(a)
    BY <2>3 DEF WriteKey, RequestInv
  <2>4. CASE OpenCert(a)
    BY <2>4 DEF OpenCert, RequestInv
  <2>5. CASE WriteCert(a)
    BY <2>5 DEF WriteCert, RequestInv
  <2>6. CASE DeleteRows(a)
    BY <2>6 DEF DeleteRows, RequestInv
  <2>7. CASE Commit(a)
    <3>0. PICK s \in Sites : s = hsite[a]
      BY <2>7 DEF Commit, RequestInv
    <3>1. /\ s = hsite[a] /\ hca[a].key \in CaKeys /\ hca[a].cert \in CaKeys /\ hkey[a] \in SiteKeys
          /\ hpc[a] \in IssuingSteps
      BY <2>7, <3>0 DEF Commit, RequestInv
    <3>2. /\ \A r \in Sites \ {s} : pairTrust'[r] = pairTrust[r] /\ rows'[r] = rows[r]
          /\ a \in clouded => pairTrust'[s] = pairTrust[s]
          /\ keyFile' = keyFile /\ certFile' = certFile
          /\ rows'[s] = (rows[s] \ hrows[a]) \cup {hkey[a]}
      BY <2>7, <3>1 DEF Commit
    <3>3. /\ hpc'[a] = "idle"
          /\ \A b \in Requests \ {a} :
               /\ hpc'[b] = hpc[b] /\ hsite'[b] = hsite[b] /\ hca'[b] = hca[b]
               /\ hkey'[b] = hkey[b] /\ hrows'[b] = hrows[b]
               /\ b \in clouded' <=> b \in clouded
      BY <2>7 DEF Commit
    <3>4. \A r \in Sites : Issuers(r)' = Issuers(r) \ {a}
      BY <3>3
    <3>5. a \notin clouded \/ pairTrust[s] =>
            /\ Issuers(s)' = {}
            /\ rows'[s] = {hkey[a]}
            /\ certFile[s] = [key |-> hkey[a], signer |-> hca[a].key, chain |-> hca[a].cert]
            /\ keyFile[s] = hkey[a]
      <4>1. hpc[a] = "commit"
        BY <2>7 DEF Commit
      <4>2. a \notin clouded \/ pairTrust[s] =>
              /\ Issuers(s) = {a} /\ keyFile[s] = hkey[a] /\ rows[s] = hrows[a]
              /\ certFile[s] = [key |-> hkey[a], signer |-> hca[a].key, chain |-> hca[a].cert]
        BY <3>1, <4>1
      <4> HIDE DEF Issuers, PairInv
      <4>3. ASSUME rows[s] = hrows[a] PROVE rows'[s] = {hkey[a]}
        <5>1. rows'[s] = (hrows[a] \ hrows[a]) \cup {hkey[a]}
          BY <3>2, <4>3
        <5> QED
          BY <5>1
      <4>4. Issuers(s) = {a} => Issuers(s)' = {}
        <5>1. Issuers(s)' = Issuers(s) \ {a}
          BY <3>1, <3>4
        <5> QED
          BY <5>1
      <4> QED
        BY <4>2, <4>3, <4>4
    <3>6. a \notin clouded \/ pairTrust[s] => certFile[s] \in Certificates /\ keyFile[s] = certFile[s].key
      BY <3>1, <3>5 DEF Certificates
    <3>7. \A r \in Sites : pairTrust'[r] => PairIsGood(r)' \/ \E b \in Issuers(r)' : hpc'[b] # "openKey"
      <4> TAKE r \in Sites
      <4>1. CASE r = s
        BY <4>1, <3>2, <3>6
      <4>2. CASE r # s
        <5>1. Issuers(r)' = Issuers(r) /\ a \notin Issuers(r)
          BY <4>2, <3>1, <3>4
        <5> QED
          BY <4>2, <3>2, <3>3, <5>1
      <4> QED
        BY <4>1, <4>2
    <3>8. \A r \in Sites : pairTrust'[r] => \A r1, r2 \in rows'[r] : r1 = r2
      BY <3>2, <3>5
    <3>9. \A b \in Requests \ {a} : hpc[b] \in IssuingSteps /\ (b \notin clouded \/ pairTrust'[hsite[b]]) =>
             hsite[b] # s /\ (b \notin clouded \/ pairTrust[hsite[b]])
      <4> TAKE b \in Requests \ {a}
      <4> HAVE hpc[b] \in IssuingSteps /\ (b \notin clouded \/ pairTrust'[hsite[b]])
      <4>1. hsite[b] \in Sites
        BY DEF RequestInv
      <4>2. CASE hsite[b] = s
        <5>1. b \in Issuers(s) /\ a \in Issuers(s)
          BY <3>1, <4>2
        <5>2. a \in clouded /\ ~pairTrust[s]
          <6>1. Issuers(s) # {a}
            BY <5>1
          <6> QED
            BY <6>1, <3>1
        <5>3. b \in clouded
          <6>1. Issuers(s) # {b}
            BY <5>1
          <6> QED
            BY <6>1, <4>2
        <5> QED
          BY <5>2, <5>3, <4>2, <3>2
      <4> QED
        BY <4>1, <4>2, <3>2
    <3> QED
      BY <3>1, <3>2, <3>3, <3>4, <3>7, <3>8, <3>9 DEF RequestInv
  <2> QED
    BY <1>2, <2>1, <2>2, <2>3, <2>4, <2>5, <2>6, <2>7 DEF Issue
<1>3. CASE Environment
  <2>1. ASSUME NEW D \in SUBSET Requests, Die(D) PROVE PairInv'
    <3>1. /\ \A b \in D : hpc'[b] = "idle"
          /\ \A b \in Requests \ D :
               /\ hpc'[b] = hpc[b] /\ hsite'[b] = hsite[b] /\ hca'[b] = hca[b]
               /\ hkey'[b] = hkey[b] /\ hrows'[b] = hrows[b]
               /\ b \in clouded' <=> b \in clouded
      BY <2>1 DEF Die
    <3>2. \A r \in Sites : Issuers(r)' = Issuers(r) \ D
      BY <3>1
    <3>3. UNCHANGED siteVars
      BY <2>1 DEF Die
    <3>4. \A r \in Sites : pairTrust'[r] =>
            pairTrust[r] /\ \A b \in D \cap Issuers(r) : hpc[b] \in {"openKey", "delete", "commit"}
      BY <2>1 DEF Die
    <3>5. \A r \in Sites : pairTrust'[r] =>
             PairIsGood(r)' \/ \E b \in Issuers(r)' : hpc'[b] # "openKey"
      <4> SUFFICES ASSUME NEW r \in Sites, pairTrust'[r], \A b \in Issuers(r)' : hpc'[b] = "openKey"
                   PROVE  PairIsGood(r)'
        OBVIOUS
      <4>1. CASE \A b \in Issuers(r) : hpc[b] = "openKey"
        BY <4>1, <3>3, <3>4 DEF PairInv, PairIsGood
      <4>2. ASSUME NEW b \in Issuers(r), hpc[b] \in {"delete", "commit"} PROVE PairIsGood(r)'
        <5>1. certFile[r] = [key |-> hkey[b], signer |-> hca[b].key, chain |-> hca[b].cert]
               /\ keyFile[r] = hkey[b]
          <6>1. hsite[b] = r /\ b \in Requests /\ hpc[b] \in IssuingSteps /\ pairTrust[r]
            BY <4>2, <3>4
          <6> QED
            BY <4>2, <6>1 DEF PairInv
        <5>2. hkey[b] \in SiteKeys /\ hca[b].key \in CaKeys /\ hca[b].cert \in CaKeys
          BY <4>2 DEF RequestInv
        <5> QED
          BY <5>1, <5>2, <3>3 DEF PairIsGood, Certificates
      <4> QED
        BY <4>1, <4>2, <3>1, <3>2, <3>4
    <3>6. \A r \in Sites : pairTrust'[r] => \A r1, r2 \in rows'[r] : r1 = r2
      BY <3>3, <3>4 DEF PairInv
    <3>7. ASSUME NEW b \in Requests \ D, hpc[b] \in IssuingSteps,
                 b \notin clouded \/ pairTrust'[hsite[b]]
          PROVE  Issuers(hsite[b])' = {b}
      <4>1. hsite[b] \in Sites
        BY <3>7 DEF RequestInv
      <4>2. Issuers(hsite[b]) = {b}
        BY <3>7, <3>4, <4>1 DEF PairInv
      <4> QED
        BY <4>1, <4>2, <3>2
    <3> QED
      BY <3>1, <3>3, <3>4, <3>5, <3>6, <3>7 DEF PairInv, RequestInv
  <2>2. CASE DeleteCaKey \/ DeleteCaCert
    BY <2>2 DEF DeleteCaKey, DeleteCaCert, Forget, PairInv, PairIsGood
  <2> QED
    BY <1>3, <2>1, <2>2 DEF Environment, Restart, DiskFull
<1>4. CASE UNCHANGED vars
  BY <1>4 DEF vars, PairInv, PairIsGood
<1> QED
  BY <1>1, <1>2, <1>3, <1>4 DEF Next

\* A vouched site lies outside of what requests for it, and for the CA, may disturb.
LEMMA VouchPreserved ==
  TypeOK /\ RequestInv /\ CaInv /\ PairInv /\ VouchInv /\ [Next]_vars => VouchInv'
<1> SUFFICES ASSUME TypeOK, RequestInv, CaInv, PairInv, VouchInv, [Next]_vars PROVE VouchInv'
  OBVIOUS
<1> USE InternalCAAssumption DEF TypeOK
<1>1. ASSUME NEW a \in Requests, EnsureCa(a) PROVE VouchInv'
  <2>1. ASSUME NEW s \in Sites \cup {NoSite}, Ask(a, s) PROVE VouchInv'
    BY <2>1 DEF Ask, VouchInv
  <2>2. CASE LoadKey(a)
    BY <2>2 DEF LoadKey, VouchInv
  <2>3. CASE LoadCert(a)
    BY <2>3 DEF LoadCert, VouchInv
  <2>4. CASE OpenCaKey(a)
    BY <2>4 DEF OpenCaKey, VouchInv
  <2>5. CASE WriteCaKey(a)
    BY <2>5 DEF WriteCaKey, VouchInv
  <2>6. CASE OpenCaCert(a)
    BY <2>6 DEF OpenCaCert, VouchInv
  <2>7. CASE WriteCaCert(a)
    BY <2>7 DEF WriteCaCert, VouchInv
  <2> QED
    BY <1>1, <2>1, <2>2, <2>3, <2>4, <2>5, <2>6, <2>7 DEF EnsureCa
<1>2. ASSUME NEW a \in Requests, Issue(a) PROVE VouchInv'
  <2> USE DEF VouchInv
  <2>1. CASE Sign(a)
    <3>0. PICK s \in Sites : s = hsite[a]
      BY <2>1 DEF Sign, RequestInv
    <3>1. /\ hpc[a] = "sign" /\ hpc' = [hpc EXCEPT ![a] = "openKey"]
          /\ UNCHANGED <<hsite, caTrust, caVars, siteVars>>
          /\ vouched' = [vouched EXCEPT ![s] = @ /\ a \notin clouded]
      BY <2>1, <3>0 DEF Sign
    <3>2. \/ Issuers(s) = {} /\ UNCHANGED <<clouded, pairTrust>>
          \/ /\ pairTrust' = [pairTrust EXCEPT ![s] = FALSE]
             /\ clouded' = clouded \cup Issuers(s) \cup {a}
      BY <2>1, <3>0 DEF Sign
    <3>3. Creators' = Creators
      BY <3>1
    <3>4. \A r \in Sites \ {s} : Issuers(r)' = Issuers(r)
      BY <3>0, <3>1
    <3>5. \A r \in Sites \ {s} : Issuers(r) \cap Issuers(s) = {} /\ a \notin Issuers(r)
      BY <3>0
    <3>6. Issuers(s)' = Issuers(s) \cup {a}
      BY <3>0, <3>1
    <3>7. \A r \in Sites : \A b \in Issuers(r) : b # a /\ hpc'[b] = hpc[b]
      BY <3>1
    <3> HIDE DEF Creators, Issuers
    <3>8. ASSUME NEW r \in Sites \ {s}, vouched'[r], pairTrust'[r]
          PROVE  \A b \in Issuers(r)' : b \notin clouded'
      BY <3>1, <3>2, <3>4, <3>5, <3>8
    <3>9. ASSUME NEW r \in Sites, vouched'[r] PROVE vouched[r] /\ (r = s => a \notin clouded)
      BY <3>1, <3>9
    <3>10. ASSUME NEW r \in Sites \ {s}, vouched'[r], pairTrust'[r],
                  \A b \in Issuers(r)' : hpc'[b] # "writeCert"
           PROVE  certFile'[r] \in Certificates /\ certFile'[r].signer = caKey' /\ certFile'[r].chain = caCert'
      <4>1. vouched[r] /\ pairTrust[r] /\ Issuers(r)' = Issuers(r)
        BY <3>1, <3>2, <3>4, <3>10
      <4>2. \A b \in Issuers(r) : hpc[b] # "writeCert"
        BY <3>7, <3>10, <4>1
      <4> QED
        BY <3>1, <4>1, <4>2
    <3>11. ASSUME vouched'[s], pairTrust'[s]
           PROVE  /\ \A b \in Issuers(s)' : b \notin clouded'
                  /\ certFile'[s] \in Certificates /\ certFile'[s].signer = caKey' /\ certFile'[s].chain = caCert'
      <4>1. Issuers(s) = {} /\ UNCHANGED <<clouded, pairTrust>>
        BY <3>2, <3>11
      <4>2. Issuers(s)' = {a} /\ a \notin clouded
        BY <3>6, <3>9, <3>11, <4>1
      <4> QED
        BY <3>1, <3>9, <3>11, <4>1, <4>2
    <3> QED
      BY <3>1, <3>3, <3>8, <3>9, <3>10, <3>11
  <2>2. CASE OpenKey(a)
    BY <2>2 DEF OpenKey, RequestInv
  <2>3. CASE WriteKey(a)
    BY <2>3 DEF WriteKey, RequestInv
  <2>4. CASE OpenCert(a)
    BY <2>4 DEF OpenCert, RequestInv
  <2>5. CASE WriteCert(a)
    BY <2>5 DEF WriteCert, RequestInv, CaInv, Certificates
  <2>6. CASE DeleteRows(a)
    BY <2>6 DEF DeleteRows, RequestInv
  <2>7. CASE Commit(a)
    <3>0. PICK s \in Sites : s = hsite[a]
      BY <2>7 DEF Commit, RequestInv
    <3>1. /\ hpc[a] = "commit" /\ UNCHANGED <<keyFile, certFile, caVars, caTrust>>
          /\ hpc'[a] = "idle"
          /\ \A b \in Requests \ {a} :
               hpc'[b] = hpc[b] /\ hsite'[b] = hsite[b] /\ (b \in clouded' <=> b \in clouded)
      BY <2>7 DEF Commit
    <3>2. /\ \A r \in Sites \ {s} : pairTrust'[r] = pairTrust[r] /\ vouched'[r] = vouched[r]
          /\ a \in clouded => pairTrust'[s] = pairTrust[s] /\ vouched'[s] = vouched[s]
          /\ a \notin clouded => vouched'[s] = caTrust
      BY <2>7, <3>0 DEF Commit
    <3>3. Creators' = Creators
      BY <3>1
    <3>4. \A r \in Sites : Issuers(r)' = Issuers(r) \ {a}
      BY <3>1
    <3>5. \A r \in Sites \ {s} : Issuers(r)' = Issuers(r)
      BY <3>0, <3>4
    <3>6. a \notin clouded /\ caTrust =>
            /\ Creators = {} /\ ~Missed
            /\ Issuers(s) = {a}
            /\ certFile[s] \in Certificates /\ certFile[s].signer = caKey /\ certFile[s].chain = caCert
      <4>1. a \notin clouded /\ caTrust =>
              Creators = {} /\ ~Missed /\ hca[a].key = caKey /\ hca[a].cert = caCert
        BY <3>1 DEF CaInv
      <4>2. a \notin clouded => /\ Issuers(s) = {a}
              /\ certFile[s] = [key |-> hkey[a], signer |-> hca[a].key, chain |-> hca[a].cert]
        BY <3>0, <3>1 DEF PairInv
      <4>3. hkey[a] \in SiteKeys /\ hca[a].key \in CaKeys /\ hca[a].cert \in CaKeys
        BY <3>1 DEF RequestInv
      <4> QED
        BY <4>1, <4>2, <4>3 DEF Certificates
    <3>7. a \in Issuers(s)
      BY <3>0, <3>1
    <3>8. \A r \in Sites : Issuers(r) \subseteq Requests
      OBVIOUS
    <3> HIDE DEF Creators, Issuers
    <3>9. CASE a \in clouded
      BY <3>1, <3>2, <3>3, <3>4, <3>7, <3>8, <3>9
    <3>10. CASE a \notin clouded
      <4>1. \A r \in Sites \ {s} : vouched'[r] =>
              /\ caTrust' /\ Creators' = {} /\ ~Missed'
              /\ pairTrust'[r] =>
                   /\ \A b \in Issuers(r)' : b \notin clouded'
                   /\ (\A b \in Issuers(r)' : hpc'[b] # "writeCert") =>
                        certFile'[r] \in Certificates /\ certFile'[r].signer = caKey' /\ certFile'[r].chain = caCert'
        <5>1. \A r \in Sites \ {s} : a \notin Issuers(r)
          BY <3>0 DEF Issuers
        <5> QED
          BY <3>1, <3>2, <3>3, <3>5, <3>8, <5>1
      <4>2. vouched'[s] =>
              /\ caTrust' /\ Creators' = {} /\ ~Missed'
              /\ Issuers(s)' = {}
              /\ certFile'[s] \in Certificates /\ certFile'[s].signer = caKey' /\ certFile'[s].chain = caCert'
        <5>1. Issuers(s) = {a} => Issuers(s)' = {}
          BY <3>4
        <5>2. vouched'[s] => caTrust
          BY <3>2, <3>10
        <5> QED
          BY <3>1, <3>3, <3>6, <3>10, <5>1, <5>2
      <4> QED
        BY <4>1, <4>2
    <3> QED
      BY <3>9, <3>10
  <2> QED
    BY <1>2, <2>1, <2>2, <2>3, <2>4, <2>5, <2>6, <2>7 DEF Issue
<1>3. CASE Environment
  <2>1. ASSUME NEW D \in SUBSET Requests, Die(D) PROVE VouchInv'
    <3>1. /\ \A b \in Requests \ D :
               hpc'[b] = hpc[b] /\ hsite'[b] = hsite[b] /\ (b \in clouded' <=> b \in clouded)
          /\ \A b \in D : hpc'[b] = "idle"
          /\ UNCHANGED <<caVars, siteVars, vouched>>
      BY <2>1 DEF Die
    <3>2. /\ Creators' = Creators \ D
          /\ \A r \in Sites : Issuers(r)' = Issuers(r) \ D
      BY <3>1
    <3>3. Creators = {} /\ caTrust => caTrust'
      BY <2>1 DEF Die
    <3>4. \A r \in Sites : pairTrust'[r] =>
            pairTrust[r] /\ \A b \in D \cap Issuers(r) : hpc[b] # "writeCert"
      BY <2>1 DEF Die
    <3>5. \A r \in Sites : Issuers(r) \subseteq Requests
      OBVIOUS
    <3> HIDE DEF Creators, Issuers
    <3> QED
      BY <3>1, <3>2, <3>3, <3>4, <3>5 DEF VouchInv
  <2>2. CASE DeleteCaKey \/ DeleteCaCert
    BY <2>2 DEF DeleteCaKey, DeleteCaCert, Forget, VouchInv
  <2> QED
    BY <1>3, <2>1, <2>2 DEF Environment, Restart, DiskFull
<1>4. CASE UNCHANGED vars
  BY <1>4 DEF vars, VouchInv
<1> QED
  BY <1>1, <1>2, <1>3, <1>4 DEF Next

\* Whatever requests, restarts, a full disk and rotations do, the CA and the files of the
\* sites are as Inv says.
THEOREM Invariant == Spec => []Inv
<1>1. Init => Inv
  BY InitEstablishes
<1>2. Inv /\ [Next]_vars => Inv'
  BY TypePreserved, RequestPreserved, CaPreserved, PairPreserved, VouchPreserved DEF Inv
<1> QED
  BY <1>1, <1>2, PTL DEF Spec

\* The CA on disk is one key with its own certificate, or will be made anew, and every
\* client's root is the one on disk, until two creations meet or one dies half-way.
THEOREM AuthorityStaysUsable == Spec => []CaIsUsable
<1>1. Inv => CaIsUsable
  BY DEF Inv, CaInv, CaIsUsable
<1> QED
  BY <1>1, Invariant, PTL

\* key.pem and cert.pem of a site belong together whenever nobody is writing them, however
\* many requests for other sites run.
THEOREM KeysMatchCertificates == Spec => []PairsBelong
<1>1. Inv => PairsBelong
  BY DEF Inv, PairInv, PairsBelong, PairIsGood
<1> QED
  BY <1>1, Invariant, PTL

\* Clients that trust the root they downloaded accept every site that is vouched for.
THEOREM RootVouchesForSites == Spec => []ClientsTrustSites
<1>1. Inv => ClientsTrustSites
  BY DEF Inv, CaInv, VouchInv, ClientsTrustSites
<1> QED
  BY <1>1, Invariant, PTL
=============================================================================
