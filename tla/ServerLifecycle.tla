-------------------------- MODULE ServerLifecycle --------------------------
(***************************************************************************)
(* cmd/simple-apiserver: what one invocation of the binary does from its   *)
(* flags to its end, several of them started on one directory of           *)
(* self-signed certificates and one port, with the recipes of the Justfile *)
(* that use the same directory (dev, dev-kubeconfig, dev-clean).           *)
(*                                                                         *)
(* A file of the directory holds the number of the pair it belongs to.     *)
(* The option groups of k8s.io/apiserver do most of the work: what they    *)
(* do with the files, the port and the signals is modelled here as the     *)
(* code of this repository relies on it.                                   *)
(***************************************************************************)
EXTENDS Naturals

CONSTANTS
  Procs,     \* invocations that can be alive at the same time
  Modes,     \* values of --authorization-mode
  Contexts,  \* what Run may get as its context: "nil", "background", "cancelable"
  Torn       \* a file that is open for writing, and still empty

VARIABLES
  crt, key,   \* apiserver.crt and apiserver.key
  minted,     \* pairs generated so far: the number of the last one
  past,       \* what happened to the directory since the last dev-clean, a
              \* history variable: "stopped" if its only writer did not get to
              \* its end, "disturbed" if writers overlapped or dev-clean itself
              \* has not got to its end, or met a writer
  kubeconfig, \* the number of the certificate it trusts
  pc,         \* where each invocation is
  flags,      \* its [mode, certs] flags: the mode, and where its certificates are
  pair,       \* the [crt, key] it generated or loaded
  ctx,        \* the context of its Run
  inflight,   \* the requests it is answering
  exit        \* how the last step ended an invocation, if it did

files == <<crt, key, minted, past>>
memory == <<flags, pair, ctx, inflight>>
vars == <<files, kubeconfig, pc, memory, exit>>

None == 0
Files == Nat \cup {Torn}

ASSUME ServerLifecycleAssumption ==
  /\ Torn \notin Nat
  /\ Contexts \subseteq {"nil", "background", "cancelable"}
  /\ Contexts # {}

AuthorizationModeAlwaysAllow == "AlwaysAllow"
DefaultMode == ""
Supported == {DefaultMode, AuthorizationModeAlwaysAllow}

\* --cert-dir, or the two files of --tls-cert-file and --tls-private-key-file.
Sources == {"dir", "given"}

NoFlags == [mode |-> DefaultMode, certs |-> "dir"]
NoPair == [crt |-> None, key |-> None]
NoExit == [why |-> "none", dropped |-> 0]

\* In the order in which an invocation passes through them.
Writing == {"open crt", "write crt", "open key", "write key"}
Building == {"read crt", "read key", "new"}
Starting == {"complete", "validate", "bind"} \cup Writing \cup Building
Steps == Starting \cup {"off", "serving", "draining"}

\* The ways an invocation ends.
Ends == {"refused", "drained", "timeout", "signal", "impatient", "killed"}

TypeOK ==
  /\ crt \in Files /\ key \in Files /\ minted \in Nat
  /\ past \in {"calm", "stopped", "disturbed"}
  /\ kubeconfig \in Files
  /\ pc \in [Procs -> Steps]
  /\ flags \in [Procs -> [mode : Modes \cup {DefaultMode}, certs : Sources]]
  /\ pair \in [Procs -> [crt : Files, key : Files]]
  /\ ctx \in [Procs -> {"nil", "background", "cancelable"}]
  /\ inflight \in [Procs -> Nat]
  /\ exit \in [why : {"none"} \cup Ends, dropped : Nat]

-----------------------------------------------------------------------------
Go(p, to) == pc' = [pc EXCEPT ![p] = to] /\ exit' = NoExit

\* The process ends: what it had in memory, and its port, are gone.
Exit(p, why) ==
  /\ pc' = [pc EXCEPT ![p] = "off"]
  /\ flags' = [flags EXCEPT ![p] = NoFlags]
  /\ pair' = [pair EXCEPT ![p] = NoPair]
  /\ ctx' = [ctx EXCEPT ![p] = "nil"]
  /\ inflight' = [inflight EXCEPT ![p] = 0]
  /\ exit' = [why |-> why, dropped |-> inflight[p]]

\* RunE returns an error.
Refuse(p) == Exit(p, "refused") /\ UNCHANGED <<files, kubeconfig>>

SetPair(p, new) == pair' = [pair EXCEPT ![p] = new] /\ UNCHANGED <<flags, ctx, inflight>>

NoWriter == \A p \in Procs : pc[p] \notin Writing

Start(p) ==
  /\ pc[p] = "off" /\ Go(p, "complete")
  /\ \E mode \in Modes, certs \in Sources :
       flags' = [flags EXCEPT ![p] = [mode |-> mode, certs |-> certs]]
  /\ UNCHANGED <<files, kubeconfig, pair, ctx, inflight>>

-----------------------------------------------------------------------------
(* Complete: MaybeDefaultWithSelfSignedCerts *)

\* Nothing to do: the flags name a pair, or both files can be opened.
CompleteKeeps(p) ==
  /\ pc[p] = "complete"
  /\ flags[p].certs = "given" \/ (crt # None /\ key # None)
  /\ Go(p, "validate")
  /\ UNCHANGED <<files, kubeconfig, memory>>

\* One of the two files is missing, or both are and no pair can be generated.
CompleteRefuses(p) ==
  /\ pc[p] = "complete" /\ flags[p].certs = "dir"
  /\ crt = None \/ key = None
  /\ Refuse(p)

\* Slip: files that are there are not looked at.
GenerateAlways(p) ==
  /\ pc[p] = "complete" /\ flags[p].certs = "dir"
  /\ minted' = minted + 1
  /\ SetPair(p, [crt |-> minted + 1, key |-> minted + 1])
  /\ past' = IF NoWriter THEN past ELSE "disturbed"
  /\ Go(p, "open crt")
  /\ UNCHANGED <<crt, key, kubeconfig>>

Generate(p) ==
  /\ pc[p] = "complete" /\ flags[p].certs = "dir"
  /\ crt = None /\ key = None
  /\ minted' = minted + 1
  /\ SetPair(p, [crt |-> minted + 1, key |-> minted + 1])
  /\ past' = IF NoWriter THEN past ELSE "disturbed"
  /\ Go(p, "open crt")
  /\ UNCHANGED <<crt, key, kubeconfig>>

\* What is written to a file that was removed since it was opened is lost.
Written(file, what) == IF file = None THEN None ELSE what

\* Slip: the key is not written.
WriteCrtOnly(p) ==
  /\ \/ pc[p] = "open crt" /\ crt' = Torn /\ Go(p, "write crt")
     \/ /\ pc[p] = "write crt" /\ crt' = Written(crt, pair[p].crt)
        /\ Go(p, "validate")
  /\ UNCHANGED <<key, minted, past, kubeconfig, memory>>

\* WriteCert and WriteKey, each os.WriteFile: open and truncate, then write.
WriteCrt(p) ==
  /\ \/ pc[p] = "open crt" /\ crt' = Torn /\ Go(p, "write crt")
     \/ /\ pc[p] = "write crt" /\ crt' = Written(crt, pair[p].crt)
        /\ Go(p, "open key")
  /\ UNCHANGED <<key, minted, past, kubeconfig, memory>>

WriteKey(p) ==
  /\ \/ pc[p] = "open key" /\ key' = Torn /\ Go(p, "write key")
     \/ /\ pc[p] = "write key" /\ key' = Written(key, pair[p].key)
        /\ Go(p, "validate")
  /\ UNCHANGED <<crt, minted, past, kubeconfig, memory>>

\* An invocation ends that may have been writing.
StopsWriting(p) ==
  /\ past' = IF past = "calm" /\ pc[p] \in Writing \ {"open crt"}
               THEN "stopped" ELSE past
  /\ UNCHANGED <<crt, key, minted, kubeconfig>>

\* WriteCert or WriteKey returns an error, and Complete and RunE return it: the
\* file cannot be opened and is what it was, or it is open and stays empty.
WriteFails(p) == pc[p] \in Writing /\ Exit(p, "refused") /\ StopsWriting(p)

-----------------------------------------------------------------------------
(* Validate, Config, New and Run *)

Validate(p) ==
  /\ pc[p] = "validate"
  /\ IF flags[p].mode \in Supported
       THEN Go(p, "bind") /\ UNCHANGED <<files, kubeconfig, memory>>
       ELSE Refuse(p)

\* SecureServing.ApplyTo listens first, and reads the pair next.
HoldsPort(p) == pc[p] \in Building \cup {"serving"}

\* Slip: a port that is taken is waited for.
BindWaits(p) ==
  /\ pc[p] = "bind"
  /\ \A q \in Procs : ~HoldsPort(q)
  /\ Go(p, "read crt")
  /\ UNCHANGED <<files, kubeconfig, memory>>

Bind(p) ==
  /\ pc[p] = "bind"
  /\ IF \A q \in Procs : ~HoldsPort(q)
       THEN Go(p, "read crt") /\ UNCHANGED <<files, kubeconfig, memory>>
       ELSE Refuse(p)

ReadCrt(p) ==
  /\ pc[p] = "read crt"
  /\ IF flags[p].certs = "given"
       THEN SetPair(p, NoPair) /\ Go(p, "new") /\ UNCHANGED <<files, kubeconfig>>
       ELSE IF crt = None
              THEN Refuse(p)
              ELSE /\ SetPair(p, [crt |-> crt, key |-> None])
                   /\ Go(p, "read key")
                   /\ UNCHANGED <<files, kubeconfig>>

\* Slip: the two files are not compared.
ReadKeyUnchecked(p) ==
  /\ pc[p] = "read key"
  /\ SetPair(p, [pair[p] EXCEPT !.key = key])
  /\ Go(p, "new")
  /\ UNCHANGED <<files, kubeconfig>>

\* tls.X509KeyPair refuses what is not a pair.
ReadKey(p) ==
  /\ pc[p] = "read key"
  /\ IF key = pair[p].crt /\ key # Torn
       THEN /\ SetPair(p, [pair[p] EXCEPT !.key = key])
            /\ Go(p, "new")
            /\ UNCHANGED <<files, kubeconfig>>
       ELSE Refuse(p)

\* The other option groups, New and PrepareRun can fail.
NewFails(p) == pc[p] = "new" /\ Refuse(p)

\* Run: without a context it takes one that a signal cancels.
Serve(p) ==
  /\ pc[p] = "new" /\ Go(p, "serving")
  /\ \E c \in Contexts : ctx' = [ctx EXCEPT ![p] = c]
  /\ UNCHANGED <<files, kubeconfig, flags, pair, inflight>>

\* The serving pair is read again when its files change, and taken if it is one.
Whole == crt = key /\ crt \notin {None, Torn}

Reload(p) ==
  /\ pc[p] = "serving" /\ flags[p].certs = "dir"
  /\ Whole /\ pair[p].crt # crt
  /\ SetPair(p, [crt |-> crt, key |-> key])
  /\ exit' = NoExit
  /\ UNCHANGED <<files, kubeconfig, pc>>

-----------------------------------------------------------------------------
(* Requests and the end *)

Arrive(p) ==
  /\ pc[p] = "serving"
  /\ inflight' = [inflight EXCEPT ![p] = @ + 1]
  /\ exit' = NoExit
  /\ UNCHANGED <<files, kubeconfig, pc, flags, pair, ctx>>

\* Slip: a request is taken off twice.
FinishTwice(p) ==
  /\ inflight[p] > 0
  /\ inflight' = [inflight EXCEPT ![p] = @ - 2]
  /\ exit' = NoExit
  /\ UNCHANGED <<files, kubeconfig, pc, flags, pair, ctx>>

Finish(p) ==
  /\ inflight[p] > 0
  /\ inflight' = [inflight EXCEPT ![p] = @ - 1]
  /\ exit' = NoExit
  /\ UNCHANGED <<files, kubeconfig, pc, flags, pair, ctx>>

Drain(p) == pc[p] = "serving" /\ Go(p, "draining") /\ UNCHANGED <<files, kubeconfig, memory>>

\* The server waits for its requests, but not longer than its shutdown timeout.
Drained(p) ==
  /\ pc[p] = "draining"
  /\ Exit(p, IF inflight[p] = 0 THEN "drained" ELSE "timeout")
  /\ UNCHANGED <<files, kubeconfig>>

\* The caller of Run cancels the context it gave.
Cancel(p) == ctx[p] = "cancelable" /\ Drain(p)

\* The process dies where it is.
Die(p, why) == Exit(p, why) /\ StopsWriting(p)

\* SIGINT or SIGTERM.  Only SetupSignalContext installs a handler; a second
\* signal ends the process in any case.
Signal(p) ==
  /\ pc[p] # "off"
  /\ IF pc[p] = "serving" /\ ctx[p] = "nil"
       THEN Drain(p)
       ELSE Die(p, IF pc[p] = "draining" THEN "impatient" ELSE "signal")

Kill(p) == pc[p] # "off" /\ Die(p, "killed")

-----------------------------------------------------------------------------
(* Justfile *)

DevKubeconfig ==
  /\ crt # None
  /\ kubeconfig' = crt
  /\ exit' = NoExit
  /\ UNCHANGED <<files, pc, memory>>

\* Slip: only the certificates are removed.
DevCleanCerts ==
  /\ \/ crt' = None /\ UNCHANGED key
     \/ key' = None /\ UNCHANGED crt
  /\ past' = IF NoWriter /\ crt' = None /\ key' = None
               THEN "calm" ELSE "disturbed"
  /\ exit' = NoExit
  /\ UNCHANGED <<minted, kubeconfig, pc, memory>>

\* rm -rf .local-run removes one file after the other, in any order, perhaps
\* while somebody writes there, and may be stopped before the last one.
DevClean ==
  /\ \/ crt' = None /\ UNCHANGED <<key, kubeconfig>>
     \/ key' = None /\ UNCHANGED <<crt, kubeconfig>>
     \/ kubeconfig' = None /\ UNCHANGED <<crt, key>>
  /\ past' = IF NoWriter /\ crt' = None /\ key' = None /\ kubeconfig' = None
               THEN "calm" ELSE "disturbed"
  /\ exit' = NoExit
  /\ UNCHANGED <<minted, pc, memory>>

Init ==
  /\ crt = None /\ key = None /\ minted = 0 /\ past = "calm"
  /\ kubeconfig = None
  /\ pc = [p \in Procs |-> "off"]
  /\ flags = [p \in Procs |-> NoFlags]
  /\ pair = [p \in Procs |-> NoPair]
  /\ ctx = [p \in Procs |-> "nil"]
  /\ inflight = [p \in Procs |-> 0]
  /\ exit = NoExit

\* What an invocation does by itself.
Advance(p) ==
  \/ CompleteKeeps(p) \/ CompleteRefuses(p) \/ Generate(p)
  \/ WriteCrt(p) \/ WriteKey(p) \/ WriteFails(p)
  \/ Validate(p) \/ Bind(p) \/ ReadCrt(p) \/ ReadKey(p) \/ NewFails(p) \/ Serve(p)
  \/ Drained(p)

Next ==
  \/ \E p \in Procs :
       \/ Start(p) \/ Advance(p) \/ Reload(p)
       \/ Arrive(p) \/ Finish(p)
       \/ Cancel(p) \/ Signal(p) \/ Kill(p)
  \/ DevKubeconfig
  \/ DevClean

Spec == Init /\ [][Next]_vars

\* A start waits for nobody, and draining has a timeout.
Fairness == \A p \in Procs : WF_vars(Advance(p))

FairSpec == Spec /\ Fairness

-----------------------------------------------------------------------------
(* Properties *)

\* Validate and SecureServing.ApplyTo: however starts overlap, are interrupted
\* or find files of others, a server that answers has a supported mode and a
\* certificate and key that belong together.
ServesSound ==
  \A p \in Procs :
    pc[p] \in {"serving", "draining"} =>
      /\ flags[p].mode \in Supported
      /\ pair[p].crt = pair[p].key
      /\ pair[p].crt # Torn

\* RunE completes, and writes files, before it validates: that does no harm.
\* Refused starts, failed starts and servers that stop leave the directory
\* empty or with a whole pair, unless the end comes in the middle of writing it,
\* by a signal or by an error of WriteCert or WriteKey that Complete returns.
\* Then there is a certificate without a key, or an empty file; but files of
\* two pairs only meet when writers overlap or meet dev-clean.
CertsUsable ==
  /\ past = "calm" /\ NoWriter => Whole \/ (crt = None /\ key = None)
  /\ past # "disturbed" => key \in {None, Torn, crt}

\* Once a pair is there, no start, refusal, end or crash changes it or adds
\* another: only dev-clean does, or writers that overlap or meet it.
WholePairStays ==
  [][past = "calm" /\ Whole => crt' \in {None, crt} /\ key' \in {None, key}]_vars

\* What dev-kubeconfig embeds stays the certificate of the directory, also when
\* it was made of what a writer that failed or was killed has left.
KubeconfigStaysValid ==
  past # "disturbed" /\ kubeconfig \notin {None, Torn} => kubeconfig = crt

\* Every invocation gets to serve or ends.
StartsEnd == \A p \in Procs : pc[p] \in Starting ~> pc[p] \notin Starting

\* server.go:230: "When ctx is nil (binary entrypoint) a signal-handling context
\* from k8s.io/apiserver is used so SIGINT / SIGTERM trigger graceful shutdown."
SignalShutsDownGracefully == exit.why = "signal" => exit.dropped = 0
=============================================================================
