------------------------ MODULE CertBootstrapProofs ------------------------
(* Theorems about CertBootstrap: any number of runs, however interrupted. *)
EXTENDS CertBootstrap, TLAPS

\* What a generate that is running has done: every file it has finished is its
\* own, the one it is at is open, and the last one was missing when it began.
Writing ==
  step = "write" =>
    /\ minted # None
    /\ written < 4 => ~Exists("tls.key")
    /\ written >= 1 => disk["ca.crt"] \in {Torn, minted}
    /\ written >= 2 => disk["ca.crt"] = minted /\ disk["ca.key"] \in {Torn, minted}
    /\ written >= 3 => disk["ca.key"] = minted /\ disk["tls.crt"] \in {Torn, minted}
    /\ written >= 4 => disk["tls.crt"] = minted /\ disk["tls.key"] \in {Torn, minted}

\* What the steps after gen-certs rely on.
Applying ==
  /\ step \in {"secret", "rollout", "apiservice", "wait"} => allExist
  /\ step = "rollout" => secret = disk["tls.crt"]
  /\ step = "apiservice" => serving = disk["tls.crt"]
  /\ BundleVouchesForPods

CalmInv == LastFileVouches /\ Writing /\ Applying

Inv == TypeOK /\ (past = "calm" => CalmInv)

LEMMA Order ==
  /\ Len(WriteOrder) = 4
  /\ WriteOrder[1] = "ca.crt"
  /\ WriteOrder[2] = "ca.key"
  /\ WriteOrder[3] = "tls.crt"
  /\ WriteOrder[4] = "tls.key"
BY DEF WriteOrder

LEMMA InvInit == Init => Inv
BY Order DEF Init, Inv, CalmInv, TypeOK, LastFileVouches, Writing, Applying, Exists,
             allExist, BundleVouchesForPods, Names, None, Steps

LEMMA TypeNext ==
  ASSUME TypeOK, [Next]_vars
  PROVE  TypeOK'
<1> USE Order DEF TypeOK, Steps, files, cluster
<1>1. CASE Start \/ Keep \/ Generate \/ Wrote \/ Available \/ Interrupt \/ UNCHANGED vars
  BY <1>1 DEF Start, Keep, Generate, Wrote, Available, Interrupt, vars
<1>2. CASE OpenFile
  <2>1. disk' \in [Names -> Nat \cup {Torn}]
    BY <1>2 DEF OpenFile
  <2>2. written' \in 0 .. 4
    BY <1>2 DEF OpenFile
  <2>3. QED
    BY <1>2, <2>1, <2>2 DEF OpenFile
<1>3. CASE Encode
  BY <1>3 DEF Encode
<1>4. CASE CreateSecret
  <2>1. disk["tls.crt"] \in Nat
    BY <1>4 DEF CreateSecret, Pair, Names
  <2>2. QED
    BY <1>4, <2>1 DEF CreateSecret
<1>5. CASE Rollout
  BY <1>5 DEF Rollout
<1>6. CASE RegisterAPIService
  <2>1. disk["ca.crt"] \in Nat \cup {Torn}
    BY DEF Names
  <2>2. QED
    BY <1>6, <2>1 DEF RegisterAPIService
<1>7. CASE Down
  BY <1>7 DEF Down, None
<1>8. CASE \E f \in Names : RemoveCert(f)
  BY <1>8 DEF RemoveCert, None
<1>9. QED
  BY <1>1, <1>2, <1>3, <1>4, <1>5, <1>6, <1>7, <1>8 DEF Next

\* OpenFile and Encode, the two steps of a run that change a file.
LEMMA CalmWrite ==
  ASSUME TypeOK, past = "calm", CalmInv, OpenFile \/ Encode
  PROVE  CalmInv'
<1> USE CertBootstrapAssumption, Order
<1>1. step = "write" /\ step' = "write" /\ minted' = minted
  BY DEF OpenFile, Encode
<1>2. written \in {0, 1, 2, 3, 4} /\ minted # Torn
  BY DEF TypeOK
<1>3. Writing' /\ LastFileVouches'
  <2> USE DEF TypeOK, CalmInv, Writing, LastFileVouches, Exists, Names, None
  <2>1. CASE OpenFile
    BY <1>1, <1>2, <2>1 DEF OpenFile, Encoded, Current
  <2>2. CASE Encode
    BY <1>1, <1>2, <2>2 DEF Encode, Encoded, Current
  <2>3. QED
    BY <2>1, <2>2
<1>4. Applying'
  BY <1>1 DEF Applying, BundleVouchesForPods
<1>5. QED
  BY <1>3, <1>4 DEF CalmInv

\* A dev-clean that got to its end leaves no file, and no run that could rely on
\* one.
LEMMA CalmRemoved ==
  ASSUME TypeOK, NEW f \in Names, RemoveCert(f), past' = "calm"
  PROVE  CalmInv'
<1>1. step' = "off" /\ \A g \in Names : disk'[g] = None
  BY DEF RemoveCert
<1>2. QED
  BY <1>1 DEF CalmInv, LastFileVouches, Writing, Applying, Exists,
              BundleVouchesForPods, Names

LEMMA CalmNext ==
  ASSUME TypeOK, past = "calm", CalmInv, Next, ~\E f \in Names : RemoveCert(f)
  PROVE  CalmInv'
<1> USE CertBootstrapAssumption DEF CalmInv, LastFileVouches, Writing, Applying, Exists,
        BundleVouchesForPods, None, files, cluster
<1>1. CASE OpenFile \/ Encode
  BY <1>1, CalmWrite
<1>2. CASE Start \/ Interrupt
  BY <1>2 DEF Start, Interrupt
<1>3. CASE Keep
  BY <1>3 DEF Keep, allExist
<1>4. CASE Generate
  \* A file is missing, so the last one is.
  <2>1. ~Exists("tls.key")
    BY <1>4 DEF Generate, allExist, Names
  <2>2. minted' # None
    BY <1>4 DEF Generate, TypeOK
  <2>3. QED
    BY <1>4, <2>1, <2>2 DEF Generate
<1>5. CASE Wrote
  <2>1. written = 4 /\ disk["tls.key"] = minted
    BY <1>5, Order DEF Wrote, Encoded, Current
  <2>2. allExist
    BY <1>5, <2>1 DEF Wrote, allExist, Names
  <2>3. QED
    BY <1>5, <2>2 DEF Wrote, allExist
<1>6. CASE CreateSecret
  BY <1>6 DEF CreateSecret, allExist
<1>7. CASE Rollout
  BY <1>7 DEF Rollout, allExist
<1>8. CASE RegisterAPIService
  <2>1. disk["ca.crt"] = disk["tls.crt"]
    BY <1>8 DEF RegisterAPIService, allExist, Names
  <2>2. QED
    BY <1>8, <2>1 DEF RegisterAPIService, allExist
<1>9. CASE Available
  BY <1>9 DEF Available
<1>10. CASE Down
  BY <1>10 DEF Down
<1>11. QED
  BY <1>1, <1>2, <1>3, <1>4, <1>5, <1>6, <1>7, <1>8, <1>9, <1>10 DEF Next

LEMMA InvNext == Inv /\ [Next]_vars => Inv'
<1> SUFFICES ASSUME Inv, [Next]_vars
             PROVE  Inv'
  OBVIOUS
<1>1. TypeOK'
  BY TypeNext DEF Inv
<1>2. CASE \E f \in Names : RemoveCert(f)
  BY <1>1, <1>2, CalmRemoved DEF Inv
<1>3. CASE Next /\ ~\E f \in Names : RemoveCert(f)
  <2>1. past' = past
    BY <1>3 DEF Next, Start, Keep, Generate, OpenFile, Encode, Wrote, CreateSecret,
                Rollout, RegisterAPIService, Available, Interrupt, Down, files
  <2>2. QED
    BY <1>1, <1>3, <2>1, CalmNext DEF Inv
<1>4. CASE UNCHANGED vars
  BY <1>1, <1>4 DEF vars, Inv, CalmInv, LastFileVouches, Writing, Applying, Exists,
                    allExist, BundleVouchesForPods, files, cluster
<1>5. QED
  BY <1>2, <1>3, <1>4

LEMMA CertInvariant == Spec => []Inv
BY InvInit, InvNext, PTL DEF Spec

\* The order in which generate writes its files makes their existence prove that
\* they belong together, whatever was interrupted, unless a dev-clean was.
THEOREM CertLastFileVouches == Spec => []LastFileVouches
<1>1. Inv => LastFileVouches
  BY DEF Inv, CalmInv, LastFileVouches
<1>2. QED
  BY <1>1, CertInvariant, PTL

\* The Secret never holds a truncated file, and the other values have their types.
THEOREM CertTypeCorrect == Spec => []TypeOK
<1>1. Inv => TypeOK
  BY DEF Inv
<1>2. QED
  BY <1>1, CertInvariant, PTL

\* e2e-up.sh never waits for an aggregator whose bundle does not match the pods,
\* unless a dev-clean stopped halfway.
THEOREM CertBundleVouchesForPods == Spec => []BundleVouchesForPods
<1>1. Inv => BundleVouchesForPods
  BY DEF Inv, CalmInv, Applying, BundleVouchesForPods
<1>2. QED
  BY <1>1, CertInvariant, PTL

\* Running e2e-up.sh again, or removing files, keeps the Secret and the bundle of a cluster that was
\* made from the files that are there.
THEOREM CertRerunKeepsTrust == Spec => RerunKeepsTrust
<1> DEFINE Step ==
      Settled =>
        \/ UNCHANGED <<disk, secret, caBundle>>
        \/ UNCHANGED disk /\ secret' = None /\ caBundle' = None
        \/ /\ UNCHANGED <<secret, caBundle>>
           /\ \A f \in Names : disk'[f] \in {None, disk[f]}
<1>1. Inv /\ [Next]_vars => [Step]_vars
  <2> SUFFICES ASSUME Inv, Next, Settled
               PROVE  Step
    BY DEF vars
  <2>1. CASE CreateSecret
    BY <2>1 DEF CreateSecret, Pair, Settled, files
  <2>2. CASE RegisterAPIService
    BY <2>2 DEF RegisterAPIService, Settled, files
  <2>3. CASE Down
    BY <2>3 DEF Down, files
  <2>4. CASE \E f \in Names : RemoveCert(f)
    BY <2>4 DEF RemoveCert, Inv, TypeOK, cluster
  \* The serving key is there and whole: generate has no file left to write.
  <2>5. Exists("tls.key") /\ disk["tls.key"] # Torn /\ CalmInv
    BY DEF Settled, Names, Inv
  <2>6. ~OpenFile
    BY <2>5, Order DEF OpenFile, Inv, TypeOK, CalmInv, Writing
  <2>7. ~Encode
    <3>1. SUFFICES ASSUME Encode
                   PROVE  FALSE
      OBVIOUS
    <3>2. written = 4
      BY <2>5, <3>1, Order DEF Encode, Encoded, Current, Inv, TypeOK, CalmInv, Writing
    <3>3. QED
      BY <2>5, <3>1, <3>2, Order DEF Encode, Encoded, Current, CalmInv, Writing
  <2>8. QED
    BY <2>1, <2>2, <2>3, <2>4, <2>6, <2>7
       DEF Next, Start, Keep, Generate, Wrote, Rollout, Available, Interrupt, files, cluster
<1>2. QED
  BY <1>1, CertInvariant, PTL DEF Spec, RerunKeepsTrust
=============================================================================
