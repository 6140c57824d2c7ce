--------------------------- MODULE CertBootstrap ---------------------------
(***************************************************************************)
(* hack/gen-certs/main.go as hack/e2e-up.sh runs it: four files made       *)
(* together and written one after the other, the Secret and the APIService *)
(* made from them, and runs that are interrupted anywhere and started      *)
(* again, with the dev-clean of the Justfile, which removes the files at   *)
(* any moment and may itself stop halfway.                                 *)
(*                                                                         *)
(* Each call of generate makes a new CA and a new serving pair, known here *)
(* by its number: a file's contents are the number of the call that wrote  *)
(* them.  Two files belong together if they have the same number.          *)
(***************************************************************************)
EXTENDS Naturals, Sequences

CONSTANT Torn  \* a file opened with O_TRUNC, and nothing written since

ASSUME CertBootstrapAssumption == Torn \notin Nat

VARIABLES
  disk,      \* the files under -out
  minted,    \* how many times generate made certificates
  written,   \* how many files the generate that is running has opened
  past,      \* a history variable: "disturbed" if the last dev-clean has not
             \* got to its end, or met a run
  step,      \* where e2e-up.sh is
  secret,    \* the number of the pair in simple-apiserver-tls
  serving,   \* the number of the pair the pods serve
  caBundle   \* the number of the CA the aggregator trusts

files == <<disk, minted, written, past>>
cluster == <<secret, serving, caBundle>>
vars == <<files, step, cluster>>

Names == {"ca.crt", "ca.key", "tls.crt", "tls.key"}

\* Slip: the serving key goes before the certificate.
KeyFirst == <<"ca.crt", "ca.key", "tls.key", "tls.crt">>

\* generate, from line 145 on.
WriteOrder == <<"ca.crt", "ca.key", "tls.crt", "tls.key">>

None == 0  \* no file; nothing in the cluster

\* The steps of e2e-up.sh that touch certificates; the script ends at any that
\* fails (set -e), and so it does when gen-certs does.
Steps == {"off", "gen-certs", "write", "secret", "rollout", "apiservice", "wait"}

TypeOK ==
  /\ disk \in [Names -> Nat \cup {Torn}]
  /\ minted \in Nat
  /\ written \in 0 .. Len(WriteOrder)
  /\ past \in {"calm", "disturbed"}
  /\ step \in Steps
  /\ secret \in Nat /\ serving \in Nat /\ caBundle \in Nat \cup {Torn}

-----------------------------------------------------------------------------
Exists(f) == disk[f] # None

\* Slip: the files are made again on every run.
NeverExist == FALSE

allExist == \A f \in Names : Exists(f)

Start ==
  /\ step = "off"
  /\ step' = "gen-certs"
  /\ UNCHANGED <<files, cluster>>

\* "Certs already present; nothing to do".
Keep ==
  /\ step = "gen-certs" /\ allExist
  /\ step' = "secret"
  /\ UNCHANGED <<files, cluster>>

\* generate, up to its first write: all four are made in memory.
Generate ==
  /\ step = "gen-certs" /\ ~allExist
  /\ minted' = minted + 1
  /\ written' = 0
  /\ step' = "write"
  /\ UNCHANGED <<disk, past, cluster>>

\* writePEM: OpenFile, then pem.Encode; nothing is left to encode to a file that
\* was removed since it was opened.
Current == WriteOrder[written]
Encoded == written # 0 => disk[Current] # Torn

OpenFile ==
  /\ step = "write" /\ Encoded /\ written < Len(WriteOrder)
  /\ written' = written + 1
  /\ disk' = [disk EXCEPT ![WriteOrder[written + 1]] = Torn]
  /\ UNCHANGED <<minted, past, step, cluster>>

Encode ==
  /\ step = "write" /\ ~Encoded
  /\ disk' = [disk EXCEPT ![Current] = minted]
  /\ UNCHANGED <<minted, written, past, step, cluster>>

Wrote ==
  /\ step = "write" /\ Encoded /\ written = Len(WriteOrder)
  /\ step' = "secret"
  /\ UNCHANGED <<files, cluster>>

\* kubectl create secret tls refuses a certificate and a key that are not a pair.
Pair == disk["tls.crt"] \notin {None, Torn} /\ disk["tls.crt"] = disk["tls.key"]

\* Slip: whatever is in the files becomes the Secret.
CreateSecretUnchecked ==
  /\ step = "secret"
  /\ secret' = disk["tls.key"]
  /\ step' = "rollout"
  /\ UNCHANGED <<files, serving, caBundle>>

CreateSecret ==
  /\ step = "secret" /\ Pair
  /\ secret' = disk["tls.crt"]
  /\ step' = "rollout"
  /\ UNCHANGED <<files, serving, caBundle>>

\* Slip: a deployment that is there is left to run.
RolloutIfNew ==
  /\ step = "rollout"
  /\ serving' = IF serving = None THEN secret ELSE serving
  /\ step' = "apiservice"
  /\ UNCHANGED <<files, secret, caBundle>>

\* Apply the deployment, restart it, and wait for the new pods.  (Pods that start
\* earlier take the Secret earlier; no later step can tell.)
Rollout ==
  /\ step = "rollout"
  /\ serving' = secret
  /\ step' = "apiservice"
  /\ UNCHANGED <<files, secret, caBundle>>

RegisterAPIService ==
  /\ step = "apiservice" /\ Exists("ca.crt")
  /\ caBundle' = disk["ca.crt"]
  /\ step' = "wait"
  /\ UNCHANGED <<files, secret, serving>>

\* The aggregator calls the service only if the bundle vouches for the pods.
Available ==
  /\ step = "wait" /\ caBundle = serving
  /\ step' = "off"
  /\ UNCHANGED <<files, cluster>>

\* A command fails, or somebody stops the script: what is done stays done.
Interrupt ==
  /\ step # "off"
  /\ step' = "off"
  /\ UNCHANGED <<files, cluster>>

\* hack/e2e-down.sh removes the cluster and keeps the files.
Down ==
  /\ step = "off"
  /\ secret' = None /\ serving' = None /\ caBundle' = None
  /\ UNCHANGED <<files, step>>

\* just dev-clean: rm -rf .local-run removes the directory of the certificates
\* with the rest of it, one file after the other, in any order.
RemoveCert(f) ==
  /\ disk' = [disk EXCEPT ![f] = None]
  /\ past' = IF step = "off" /\ \A g \in Names : disk'[g] = None
               THEN "calm" ELSE "disturbed"
  /\ UNCHANGED <<minted, written, step, cluster>>

Init ==
  /\ disk = [f \in Names |-> None]
  /\ minted = 0 /\ written = 0 /\ past = "calm"
  /\ step = "off"
  /\ secret = None /\ serving = None /\ caBundle = None

Next ==
  \/ Start \/ Keep \/ Generate \/ OpenFile \/ Encode \/ Wrote
  \/ CreateSecret \/ Rollout \/ RegisterAPIService \/ Available
  \/ Interrupt \/ Down
  \/ \E f \in Names : RemoveCert(f)

Spec == Init /\ [][Next]_vars

-----------------------------------------------------------------------------
(* Properties *)

\* allExist looks only at which files there are, and that is enough: the key
\* of the serving certificate is opened last, so that once it exists the other
\* three are whole and belong together, whatever was interrupted before; the key
\* itself can be empty, and nothing worse.  A dev-clean that leaves the last file
\* and not the others takes that away.
LastFileVouches ==
  past = "calm" /\ Exists("tls.key") =>
    /\ \A f, g \in Names \ {"tls.key"} : disk[f] = disk[g]
    /\ disk["ca.crt"] \notin {None, Torn}
    /\ disk["tls.key"] \in {Torn, disk["ca.crt"]}

\* e2e-up.sh waits for the aggregator only when the CA it registered signed
\* what the pods serve, after any history of interrupted runs, of clusters
\* removed and of files removed to the last: the wait does not fail for the
\* certificates.
BundleVouchesForPods == past = "calm" /\ step = "wait" => caBundle = serving

\* "Re-running e2e-up.sh should not invalidate the in-cluster Secret or the
\* APIService caBundle" (main.go:23-25): while the four files are there and the
\* cluster was made from them, no step of a later run, nor its interruption,
\* changes the files, the Secret or the bundle.  Only e2e-down.sh takes the last
\* two away, and only dev-clean the files.
Settled ==
  /\ past = "calm"
  /\ \A f \in Names : Exists(f)
  /\ disk["tls.key"] # Torn
  /\ secret = disk["tls.key"]
  /\ caBundle = disk["ca.crt"]

RerunKeepsTrust ==
  [][ Settled =>
        \/ UNCHANGED <<disk, secret, caBundle>>
        \/ UNCHANGED disk /\ secret' = None /\ caBundle' = None
        \/ /\ UNCHANGED <<secret, caBundle>>
           /\ \A f \in Names : disk'[f] \in {None, disk[f]} ]_vars
=============================================================================
