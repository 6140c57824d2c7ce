----------------------- MODULE ServerLifecycleProofs ------------------------
(***************************************************************************)
(* The safety properties of ServerLifecycle, for any number of invocations *)
(* on one directory.  The inductive invariant says what the files are at   *)
(* each step of the only writer there is while nothing was disturbed, what *)
(* a writer that did not get to its end leaves, and what each invocation   *)
(* has in memory by then.                                                  *)
(***************************************************************************)
EXTENDS ServerLifecycle, TLAPS

\* The steps of an invocation p, and those of nobody.
StepOf(p) ==
  \/ Start(p) \/ Advance(p) \/ Reload(p)
  \/ Arrive(p) \/ Finish(p) \/ Cancel(p) \/ Signal(p) \/ Kill(p)

LEMMA NextSteps ==
  ASSUME Next
  PROVE  (\E p \in Procs : StepOf(p)) \/ DevKubeconfig \/ DevClean
BY DEF Next, StepOf

LEMMA TypeInit == Init => TypeOK
BY DEF Init, TypeOK, Files, None, Steps, Sources, NoFlags, NoPair, NoExit

LEMMA ExitType ==
  ASSUME TypeOK, NEW p \in Procs, NEW why, Exit(p, why),
         why \in Ends
  PROVE  /\ pc' \in [Procs -> Steps]
         /\ flags' \in [Procs -> [mode : Modes \cup {DefaultMode}, certs : Sources]]
         /\ pair' \in [Procs -> [crt : Files, key : Files]]
         /\ ctx' \in [Procs -> {"nil", "background", "cancelable"}]
         /\ inflight' \in [Procs -> Nat]
         /\ exit' \in [why : {"none"} \cup Ends, dropped : Nat]
BY DEF Exit, TypeOK, Files, None, Steps, Sources, NoFlags, NoPair

LEMMA FilesFacts == Nat \subseteq Files /\ None \in Files /\ Torn \in Files
BY DEF Files, None

LEMMA StepsFacts ==
  /\ {"open crt", "write crt", "open key", "write key"} \subseteq Steps
  /\ {"read crt", "read key", "new"} \subseteq Steps
  /\ {"off", "complete", "validate", "bind", "serving", "draining"} \subseteq Steps
BY DEF Steps, Starting, Writing, Building

LEMMA GoType ==
  ASSUME TypeOK, NEW p \in Procs, NEW to \in Steps, Go(p, to)
  PROVE  /\ pc' \in [Procs -> Steps]
         /\ exit' \in [why : {"none"} \cup Ends, dropped : Nat]
BY DEF Go, TypeOK, NoExit

LEMMA SetPairType ==
  ASSUME TypeOK, NEW p \in Procs, NEW new \in [crt : Files, key : Files], SetPair(p, new)
  PROVE  /\ pair' \in [Procs -> [crt : Files, key : Files]]
         /\ UNCHANGED <<flags, ctx, inflight>>
BY DEF SetPair, TypeOK

\* Steps that leave the files and what the invocations know alone.
LEMMA GoOnly ==
  ASSUME TypeOK, NEW p \in Procs, NEW to \in Steps, Go(p, to),
         UNCHANGED <<files, kubeconfig, memory>>
  PROVE  TypeOK'
BY GoType DEF TypeOK, files, memory

LEMMA SetOnly ==
  ASSUME TypeOK, NEW p \in Procs, NEW to \in Steps, Go(p, to),
         NEW new \in [crt : Files, key : Files], SetPair(p, new),
         UNCHANGED <<files, kubeconfig>>
  PROVE  TypeOK'
BY GoType, SetPairType DEF TypeOK, files

LEMMA StepType ==
  ASSUME TypeOK, NEW p \in Procs, StepOf(p)
  PROVE  TypeOK'
<1>1. CASE Refuse(p)
  BY <1>1, ExitType DEF Refuse, Ends, TypeOK, files
<1>2. CASE Start(p)
  <2>1. Go(p, "complete") /\ UNCHANGED <<files, kubeconfig, pair, ctx, inflight>>
    BY <1>2 DEF Start
  <2>2. flags' \in [Procs -> [mode : Modes \cup {DefaultMode}, certs : Sources]]
    BY <1>2 DEF Start, TypeOK
  <2> QED BY <2>1, <2>2, StepsFacts, GoType DEF TypeOK, files
<1>3. CASE CompleteKeeps(p)
  BY <1>3, StepsFacts, GoOnly DEF CompleteKeeps
<1>4. CASE Generate(p)
  <2> DEFINE new == [crt |-> minted + 1, key |-> minted + 1]
  <2>1. minted + 1 \in Nat /\ new \in [crt : Files, key : Files]
    BY FilesFacts DEF TypeOK
  <2>2. SetPair(p, new) /\ Go(p, "open crt") /\ UNCHANGED <<crt, key, kubeconfig>>
    BY <1>4 DEF Generate
  <2>3. minted' = minted + 1 /\ past' \in {"calm", "stopped", "disturbed"}
    BY <1>4 DEF Generate, TypeOK
  <2> HIDE DEF new
  <2> QED BY <2>1, <2>2, <2>3, StepsFacts, GoType, SetPairType DEF TypeOK
<1>5. CASE WriteCrt(p)
  <2>1. crt' \in Files
    BY <1>5, FilesFacts DEF WriteCrt, Written, TypeOK
  <2>2. \E to \in Steps : Go(p, to)
    BY <1>5, StepsFacts DEF WriteCrt
  <2> QED BY <1>5, <2>1, <2>2, GoType DEF WriteCrt, TypeOK, memory
<1>6. CASE WriteKey(p)
  <2>1. key' \in Files
    BY <1>6, FilesFacts DEF WriteKey, Written, TypeOK
  <2>2. \E to \in Steps : Go(p, to)
    BY <1>6, StepsFacts DEF WriteKey
  <2> QED BY <1>6, <2>1, <2>2, GoType DEF WriteKey, TypeOK, memory
<1>7. CASE Validate(p)
  BY <1>1, <1>7, StepsFacts, GoOnly DEF Validate
<1>8. CASE Bind(p)
  BY <1>1, <1>8, StepsFacts, GoOnly DEF Bind
<1>9. CASE ReadCrt(p)
  <2>1. /\ NoPair \in [crt : Files, key : Files]
        /\ [crt |-> crt, key |-> None] \in [crt : Files, key : Files]
    BY FilesFacts DEF NoPair, TypeOK
  <2> QED BY <1>1, <1>9, <2>1, StepsFacts, SetOnly DEF ReadCrt
<1>10. CASE ReadKey(p)
  <2>1. [pair[p] EXCEPT !.key = key] \in [crt : Files, key : Files]
    BY DEF TypeOK
  <2> QED BY <1>1, <1>10, <2>1, StepsFacts, SetOnly DEF ReadKey
<1>11. CASE Serve(p)
  <2>1. Go(p, "serving") /\ UNCHANGED <<files, kubeconfig, flags, pair, inflight>>
    BY <1>11 DEF Serve
  <2>2. ctx' \in [Procs -> {"nil", "background", "cancelable"}]
    BY <1>11, ServerLifecycleAssumption DEF Serve, TypeOK
  <2> QED BY <2>1, <2>2, StepsFacts, GoType DEF TypeOK, files
<1>12. CASE Reload(p)
  <2>1. [crt |-> crt, key |-> key] \in [crt : Files, key : Files]
    BY DEF TypeOK
  <2> QED BY <1>12, <2>1, SetPairType DEF Reload, TypeOK, files, NoExit
<1>13. CASE Arrive(p) \/ Finish(p)
  <2>1. inflight[p] \in Nat /\ (Finish(p) => inflight[p] > 0)
    BY DEF Finish, TypeOK
  <2>2. inflight' \in [Procs -> Nat]
    BY <1>13, <2>1 DEF Arrive, Finish, TypeOK
  <2> QED BY <1>13, <2>2 DEF Arrive, Finish, TypeOK, files, NoExit
<1>14. CASE Drain(p)
  BY <1>14, StepsFacts, GoOnly DEF Drain
<1>15. CASE Drained(p)
  BY <1>15, ExitType DEF Drained, Ends, TypeOK, files
<1>16. ASSUME NEW why \in Ends, Exit(p, why), StopsWriting(p)
       PROVE  TypeOK'
  BY <1>16, ExitType DEF StopsWriting, TypeOK
<1>17. CASE WriteFails(p) \/ Signal(p) \/ Kill(p)
  BY <1>14, <1>16, <1>17 DEF WriteFails, Signal, Kill, Die, Ends
<1> QED BY <1>1, <1>2, <1>3, <1>4, <1>5, <1>6, <1>7, <1>8, <1>9, <1>10, <1>11,
     <1>12, <1>13, <1>14, <1>15, <1>16, <1>17
     DEF StepOf, Advance, CompleteRefuses, NewFails, Cancel

LEMMA TypeStep ==
  ASSUME TypeOK, [Next]_vars
  PROVE  TypeOK'
<1>1. CASE DevKubeconfig
  BY <1>1 DEF DevKubeconfig, TypeOK, NoExit, files, memory
<1>2. CASE DevClean
  BY <1>2 DEF DevClean, TypeOK, NoExit, memory, Files, None, NoWriter
<1>3. CASE UNCHANGED vars
  BY <1>3 DEF vars, files, memory, TypeOK
<1> QED BY <1>1, <1>2, <1>3, NextSteps, StepType

\* Type correctness, for any number of invocations, modes and requests.
THEOREM LifecycleTypeCorrect == Spec => []TypeOK
BY TypeInit, TypeStep, PTL DEF Spec

-----------------------------------------------------------------------------
(* What is in the memory of an invocation *)

Checked == {"bind", "read crt", "read key", "new", "serving", "draining"}

MemoryOf(p) ==
  /\ pc[p] \in Checked => flags[p].mode \in Supported
  /\ pc[p] \in {"new", "serving", "draining"} =>
       pair[p].crt = pair[p].key /\ pair[p].crt # Torn
  /\ pc[p] \in Writing =>
       pair[p].crt = pair[p].key /\ pair[p].crt \in Nat \ {None}
  /\ pc[p] \notin {"serving", "draining"} => inflight[p] = 0

MemoryInv == TypeOK /\ \A p \in Procs : MemoryOf(p)

\* Only the memory of the invocation that takes the step changes.
LEMMA OthersKeep ==
  ASSUME TypeOK, NEW p \in Procs, StepOf(p), NEW q \in Procs, q # p
  PROVE  /\ pc'[q] = pc[q] /\ flags'[q] = flags[q] /\ pair'[q] = pair[q]
         /\ ctx'[q] = ctx[q] /\ inflight'[q] = inflight[q]
<1> USE DEF TypeOK, memory, Go, SetPair
<1>1. ASSUME NEW why, Exit(p, why)
      PROVE  /\ pc'[q] = pc[q] /\ flags'[q] = flags[q] /\ pair'[q] = pair[q]
             /\ ctx'[q] = ctx[q] /\ inflight'[q] = inflight[q]
  BY <1>1 DEF Exit
<1>2. CASE Refuse(p) \/ Drained(p) \/ WriteFails(p) \/ (\E why : Die(p, why))
  BY <1>1, <1>2 DEF Refuse, Drained, WriteFails, Die
<1>3. CASE Start(p) \/ CompleteKeeps(p) \/ Generate(p) \/ WriteCrt(p) \/ WriteKey(p)
  BY <1>3 DEF Start, CompleteKeeps, Generate, WriteCrt, WriteKey
<1>4. CASE Validate(p) \/ Bind(p)
  BY <1>2, <1>4 DEF Validate, Bind
<1>5. CASE ReadCrt(p)
  BY <1>2, <1>5 DEF ReadCrt
<1>6. CASE ReadKey(p)
  BY <1>2, <1>6 DEF ReadKey
<1>7. CASE Serve(p) \/ Reload(p) \/ Arrive(p) \/ Finish(p) \/ Drain(p)
  BY <1>7 DEF Serve, Reload, Arrive, Finish, Drain
<1>8. CASE Signal(p)
  BY <1>2, <1>7, <1>8 DEF Signal
<1> QED BY <1>2, <1>3, <1>4, <1>5, <1>6, <1>7, <1>8
     DEF StepOf, Advance, CompleteRefuses, NewFails, Cancel, Kill

LEMMA ExitMemory ==
  ASSUME TypeOK, NEW p \in Procs, NEW why, Exit(p, why)
  PROVE  MemoryOf(p)'
BY DEF Exit, TypeOK, MemoryOf, Checked, Writing

LEMMA NoneIsNotTorn == None # Torn
BY ServerLifecycleAssumption DEF None

LEMMA GoAt ==
  ASSUME TypeOK, NEW p \in Procs, NEW to, Go(p, to)
  PROVE  pc'[p] = to
BY DEF TypeOK, Go

LEMMA SetAt ==
  ASSUME TypeOK, NEW p \in Procs, NEW new, SetPair(p, new)
  PROVE  pair'[p] = new /\ flags'[p] = flags[p] /\ inflight'[p] = inflight[p]
BY DEF TypeOK, SetPair

LEMMA Counts ==
  ASSUME TypeOK, NEW p \in Procs
  PROVE  minted + 1 \in Nat /\ minted + 1 # None /\ inflight[p] \in Nat
BY DEF TypeOK, None

LEMMA ReadsBoth ==
  ASSUME TypeOK, NEW p \in Procs, SetPair(p, [pair[p] EXCEPT !.key = key])
  PROVE  /\ pair'[p].crt = pair[p].crt /\ pair'[p].key = key
         /\ flags'[p] = flags[p] /\ inflight'[p] = inflight[p]
<1>1. pair[p] \in [crt : Files, key : Files]
  BY DEF TypeOK
<1> QED BY <1>1, SetAt

\* What one step needs to know of the steps before it.
LEMMA MemoryAt ==
  ASSUME NEW p \in Procs, MemoryOf(p)
  PROVE  /\ pc[p] \in {"complete", "open crt", "bind", "read crt", "read key", "new"} =>
              inflight[p] = 0
         /\ pc[p] \in {"bind", "read crt", "read key", "new", "serving", "draining"} =>
              flags[p].mode \in Supported
BY DEF MemoryOf, Checked

LEMMA GeneratedPair ==
  ASSUME TypeOK, NEW p \in Procs, Generate(p)
  PROVE  /\ pc[p] = "complete" /\ pc'[p] = "open crt"
         /\ pair'[p].crt = pair'[p].key /\ pair'[p].crt \in Nat \ {None}
         /\ flags'[p] = flags[p] /\ inflight'[p] = inflight[p]
<1>1. PICK n \in Nat \ {None} : n = minted + 1
  BY Counts
<1>2. SetPair(p, [crt |-> n, key |-> n])
  BY <1>1 DEF Generate
<1>3. pair'[p] = [crt |-> n, key |-> n]
  BY <1>2, SetAt
<1>4. flags'[p] = flags[p] /\ inflight'[p] = inflight[p]
  BY <1>2, SetAt
<1>5. pc[p] = "complete" /\ Go(p, "open crt")
  BY DEF Generate
<1>6. pair'[p].crt = pair'[p].key /\ pair'[p].crt \in Nat \ {None}
  BY <1>3
<1> QED BY <1>4, <1>5, <1>6, GoAt

LEMMA FinishesOne ==
  ASSUME TypeOK, NEW p \in Procs, Finish(p)
  PROVE  inflight[p] # 0 /\ UNCHANGED <<pc, flags, pair>>
<1>1. inflight[p] > 0
  BY DEF Finish
<1>2. inflight[p] # 0
  BY <1>1, Counts
<1> QED BY <1>2 DEF Finish

LEMMA ReloadedPair ==
  ASSUME TypeOK, NEW p \in Procs, Reload(p)
  PROVE  /\ pair'[p].crt = pair'[p].key /\ pair'[p].crt # Torn
         /\ pc[p] = "serving" /\ pc' = pc
         /\ flags'[p] = flags[p] /\ inflight'[p] = inflight[p]
<1>1. SetPair(p, [crt |-> crt, key |-> key]) /\ crt = key /\ crt # Torn
  BY DEF Reload, Whole
<1>2. pair'[p] = [crt |-> crt, key |-> key]
  BY <1>1, SetAt
<1> QED BY <1>1, <1>2, SetAt DEF Reload

LEMMA OwnMemory ==
  ASSUME TypeOK, NEW p \in Procs, MemoryOf(p), StepOf(p)
  PROVE  MemoryOf(p)'
<1> USE DEF MemoryOf, Checked, Writing
<1>1. CASE Refuse(p) \/ Drained(p) \/ WriteFails(p) \/ (\E why : Die(p, why))
  BY <1>1, ExitMemory DEF Refuse, Drained, WriteFails, Die
<1>2. CASE Start(p)
  BY <1>2, GoAt DEF Start
<1>3. CASE CompleteKeeps(p)
  BY <1>3, GoAt DEF CompleteKeeps, memory
<1>4. CASE Generate(p)
  <2>1. /\ pair'[p].crt = pair'[p].key /\ pair'[p].crt \in Nat \ {None}
        /\ inflight'[p] = inflight[p]
    BY <1>4, GeneratedPair
  <2>2. pc[p] = "complete" /\ pc'[p] = "open crt"
    BY <1>4, GeneratedPair
  <2>3. inflight'[p] = 0
    BY <2>1, <2>2, MemoryAt
  <2> QED BY <2>1, <2>2, <2>3
<1>5. CASE WriteCrt(p)
  BY <1>5, GoAt DEF WriteCrt, memory
<1>6. CASE WriteKey(p)
  BY <1>6, GoAt DEF WriteKey, memory
<1>7. CASE Validate(p)
  BY <1>1, <1>7, GoAt DEF Validate, memory
<1>8. CASE Bind(p)
  BY <1>1, <1>8, GoAt DEF Bind, memory
<1>9. CASE ReadCrt(p)
  <2>1. NoPair.crt = NoPair.key /\ NoPair.crt # Torn
    BY NoneIsNotTorn DEF NoPair
  <2>2. CASE SetPair(p, NoPair) /\ Go(p, "new")
    BY <1>9, <2>1, <2>2, GoAt, SetAt DEF ReadCrt
  <2>3. CASE \E c : SetPair(p, [crt |-> c, key |-> None]) /\ Go(p, "read key")
    BY <1>9, <2>3, GoAt, SetAt DEF ReadCrt
  <2> QED BY <1>1, <1>9, <2>2, <2>3 DEF ReadCrt
<1>10. CASE ReadKey(p)
  <2>1. CASE /\ key = pair[p].crt /\ key # Torn
             /\ SetPair(p, [pair[p] EXCEPT !.key = key]) /\ Go(p, "new")
    <3>1. pair'[p].crt = key /\ pair'[p].key = key
      BY <2>1, ReadsBoth
    <3>2. inflight'[p] = 0 /\ flags'[p].mode \in Supported
      BY <1>10, <2>1, ReadsBoth, MemoryAt DEF ReadKey
    <3>3. pc'[p] = "new"
      BY <2>1, GoAt
    <3> QED BY <2>1, <3>1, <3>2, <3>3
  <2> QED BY <1>1, <1>10, <2>1 DEF ReadKey
<1>11. CASE Serve(p)
  BY <1>11, GoAt DEF Serve
<1>12. CASE Reload(p)
  BY <1>12, ReloadedPair
<1>13. CASE Arrive(p)
  BY <1>13 DEF Arrive
<1>14. CASE Finish(p)
  <2>1. inflight[p] # 0 /\ UNCHANGED <<pc, flags, pair>>
    BY <1>14, FinishesOne
  <2>2. pc'[p] \in {"serving", "draining"}
    BY <2>1
  <2> QED BY <2>1, <2>2
<1>15. CASE Drain(p)
  BY <1>15, GoAt DEF Drain, memory
<1>16. CASE Signal(p)
  BY <1>1, <1>15, <1>16 DEF Signal
<1> QED BY <1>1, <1>2, <1>3, <1>4, <1>5, <1>6, <1>7, <1>8, <1>9, <1>10, <1>11,
     <1>12, <1>13, <1>14, <1>15, <1>16
     DEF StepOf, Advance, CompleteRefuses, NewFails, Cancel, Kill

LEMMA MemoryInit == Init => MemoryInv
<1>1. Init => \A p \in Procs : MemoryOf(p)
  BY DEF Init, MemoryOf, Checked, Writing
<1> QED BY <1>1, TypeInit DEF MemoryInv

LEMMA MemoryStep ==
  ASSUME MemoryInv, [Next]_vars
  PROVE  MemoryInv'
<1>1. TypeOK'
  BY TypeStep DEF MemoryInv
<1>2. CASE \E p \in Procs : StepOf(p)
  <2>1. PICK p \in Procs : StepOf(p)
    BY <1>2
  <2>2. MemoryOf(p)'
    BY <2>1, OwnMemory DEF MemoryInv
  <2>3. ASSUME NEW q \in Procs, q # p PROVE MemoryOf(q)'
    BY <2>1, <2>3, OthersKeep DEF MemoryInv, MemoryOf
  <2> QED BY <1>1, <2>2, <2>3 DEF MemoryInv
<1>3. CASE UNCHANGED <<pc, memory>>
  BY <1>1, <1>3 DEF MemoryInv, MemoryOf, memory
<1> QED BY <1>2, <1>3, NextSteps DEF DevKubeconfig, DevClean, vars

\* However many invocations overlap and whatever files they find: one that
\* serves has a validated mode and a matching pair.
THEOREM LifecycleServesSound == Spec => []ServesSound
<1>1. MemoryInv => ServesSound
  BY DEF MemoryInv, MemoryOf, ServesSound, Checked
<1> QED BY <1>1, MemoryInit, MemoryStep, PTL DEF Spec

-----------------------------------------------------------------------------
(* What is in the directory *)

\* While the only writer goes on, its step says what it has done.
FilesOf(p) ==
  /\ pc[p] = "open crt" => crt = None /\ key = None
  /\ pc[p] = "write crt" => crt = Torn /\ key = None
  /\ pc[p] = "open key" => crt = pair[p].crt /\ key = None
  /\ pc[p] = "write key" => crt = pair[p].crt /\ key = Torn

OneWriter == \A p, q \in Procs : pc[p] \in Writing /\ pc[q] \in Writing => p = q

WholeOrEmpty == Whole \/ (crt = None /\ key = None)

CalmInv ==
  /\ OneWriter
  /\ \A p \in Procs : FilesOf(p)
  /\ NoWriter => WholeOrEmpty
  /\ kubeconfig \notin {None, Torn} => kubeconfig = crt

\* What it leaves if it does not get to its end: no start writes over that.
StoppedInv ==
  /\ NoWriter
  /\ crt # None /\ key \in {None, Torn}
  /\ kubeconfig \notin {None, Torn} => kubeconfig = crt

FilesInv ==
  /\ past = "calm" => CalmInv
  /\ past = "stopped" => StoppedInv

\* A step that no file notices, and one that ends a writer.
Quiet(p) ==
  /\ UNCHANGED <<files, kubeconfig>>
  /\ pc[p] \notin Writing /\ pc'[p] \notin Writing

Stops(p) == pc[p] \in Writing /\ pc'[p] \notin Writing /\ StopsWriting(p)

LEMMA MemoryQuiet ==
  ASSUME NEW p \in Procs, MemoryOf(p), inflight[p] # 0
  PROVE  pc[p] \in {"serving", "draining"}
BY DEF MemoryOf

LEMMA ExitAt ==
  ASSUME TypeOK, NEW p \in Procs, NEW why, Exit(p, why)
  PROVE  pc'[p] = "off"
BY DEF TypeOK, Exit

LEMMA StepKinds ==
  ASSUME MemoryInv, NEW p \in Procs, StepOf(p)
  PROVE  \/ Quiet(p) \/ Stops(p)
         \/ Generate(p) \/ WriteCrt(p) \/ WriteKey(p)
<1> USE DEF Quiet, Writing
<1> TypeOK /\ MemoryOf(p)
  BY DEF MemoryInv
<1>1. CASE Refuse(p) /\ pc[p] \notin Writing
  BY <1>1, ExitAt DEF Refuse
<1>2. CASE Start(p)
  BY <1>2, GoAt DEF Start
<1>3. CASE CompleteKeeps(p) \/ CompleteRefuses(p)
  BY <1>1, <1>3, GoAt DEF CompleteKeeps, CompleteRefuses
<1>4. CASE Validate(p)
  BY <1>1, <1>4, GoAt DEF Validate
<1>5. CASE Bind(p)
  BY <1>1, <1>5, GoAt DEF Bind
<1>6. CASE ReadCrt(p)
  BY <1>1, <1>6, GoAt DEF ReadCrt
<1>7. CASE ReadKey(p)
  BY <1>1, <1>7, GoAt DEF ReadKey
<1>8. CASE NewFails(p) \/ Serve(p)
  BY <1>1, <1>8, GoAt DEF NewFails, Serve
<1>9. CASE Reload(p) \/ Arrive(p)
  BY <1>9 DEF Reload, Arrive
<1>10. CASE Finish(p)
  BY <1>10, FinishesOne, MemoryQuiet DEF Finish
<1>11. CASE Drain(p)
  BY <1>11, GoAt DEF Drain
<1>12. CASE Drained(p)
  BY <1>12, ExitAt DEF Drained
<1>13. ASSUME NEW why, Exit(p, why), StopsWriting(p)
       PROVE  Quiet(p) \/ Stops(p)
  <2>1. pc'[p] = "off"
    BY <1>13, ExitAt
  <2>2. CASE pc[p] \in Writing
    BY <1>13, <2>1, <2>2 DEF Stops
  <2>3. CASE pc[p] \notin Writing
    BY <1>13, <2>1, <2>3 DEF StopsWriting, files
  <2> QED BY <2>2, <2>3
<1>14. CASE WriteFails(p) \/ Signal(p) \/ Kill(p)
  BY <1>11, <1>13, <1>14 DEF WriteFails, Signal, Kill, Die
<1> QED BY <1>2, <1>3, <1>4, <1>5, <1>6, <1>7, <1>8, <1>9, <1>10, <1>11, <1>12, <1>14
     DEF StepOf, Advance, Cancel

LEMMA QuietStep ==
  ASSUME MemoryInv, FilesInv, NEW p \in Procs, StepOf(p), Quiet(p)
  PROVE  FilesInv'
<1>1. ASSUME NEW q \in Procs
      PROVE  /\ pc'[q] \in Writing => q # p
             /\ pc'[q] \in Writing <=> pc[q] \in Writing
             /\ q # p => pc'[q] = pc[q] /\ pair'[q] = pair[q]
  BY OthersKeep DEF MemoryInv, Quiet
<1>2. UNCHANGED <<crt, key, kubeconfig, past>> /\ (NoWriter <=> NoWriter')
  BY <1>1 DEF Quiet, files, NoWriter
<1>3. ASSUME CalmInv PROVE CalmInv'
  <2>1. OneWriter'
    BY <1>1, <1>3 DEF CalmInv, OneWriter
  <2>2. ASSUME NEW q \in Procs PROVE FilesOf(q)'
    BY <1>1, <1>2, <1>3 DEF CalmInv, FilesOf, Writing
  <2>3. NoWriter' => WholeOrEmpty'
    BY <1>2, <1>3 DEF CalmInv, WholeOrEmpty, Whole
  <2> QED BY <1>2, <1>3, <2>1, <2>2, <2>3 DEF CalmInv
<1>4. ASSUME StoppedInv PROVE StoppedInv'
  BY <1>2, <1>4 DEF StoppedInv
<1> QED BY <1>2, <1>3, <1>4 DEF FilesInv

LEMMA GenerateStep ==
  ASSUME MemoryInv, FilesInv, NEW p \in Procs, StepOf(p), Generate(p)
  PROVE  FilesInv'
<1>2. crt = None /\ key = None /\ UNCHANGED <<crt, key, kubeconfig>>
  BY DEF Generate
<1> SUFFICES ASSUME past' = "calm" PROVE CalmInv'
  BY <1>2 DEF FilesInv, StoppedInv, Generate
<1>1. NoWriter /\ past = "calm"
  BY DEF Generate
<1>3. pc'[p] = "open crt"
  BY GeneratedPair DEF MemoryInv
<1>4. ASSUME NEW q \in Procs, q # p PROVE pc'[q] \notin Writing
  BY <1>1, <1>4, OthersKeep DEF MemoryInv, NoWriter
<1>5. OneWriter'
  BY <1>4 DEF OneWriter
<1>6. ASSUME NEW q \in Procs PROVE FilesOf(q)'
  BY <1>2, <1>3, <1>4 DEF FilesOf, Writing
<1>7. ~NoWriter'
  BY <1>3 DEF NoWriter, Writing
<1>8. kubeconfig' \notin {None, Torn}' => kubeconfig' = crt'
  BY <1>1, <1>2 DEF FilesInv, CalmInv
<1> QED BY <1>5, <1>6, <1>7, <1>8 DEF CalmInv

\* The only writer goes on or stops: nobody else writes, before or after.
LEMMA OnlyWriter ==
  ASSUME MemoryInv, CalmInv, NEW p \in Procs, StepOf(p), pc[p] \in Writing
  PROVE  /\ \A q \in Procs : q # p => pc'[q] \notin Writing
         /\ OneWriter'
         /\ \A q \in Procs : q # p => FilesOf(q)'
<1>1. ASSUME NEW q \in Procs, q # p PROVE pc'[q] \notin Writing
  BY <1>1, OthersKeep DEF MemoryInv, CalmInv, OneWriter
<1>2. ASSUME NEW q \in Procs, q # p PROVE FilesOf(q)'
  BY <1>1, <1>2 DEF FilesOf, Writing
<1> QED BY <1>1, <1>2 DEF OneWriter

LEMMA WriterPair ==
  ASSUME MemoryInv, NEW p \in Procs, pc[p] \in Writing
  PROVE  pair[p].crt = pair[p].key /\ pair[p].crt \notin {None, Torn}
BY ServerLifecycleAssumption DEF MemoryInv, MemoryOf

LEMMA StopStep ==
  ASSUME MemoryInv, FilesInv, NEW p \in Procs, StepOf(p), Stops(p)
  PROVE  FilesInv'
<1>1. pc[p] \in Writing /\ pc'[p] \notin Writing /\ UNCHANGED <<crt, key, kubeconfig>>
  BY DEF Stops, StopsWriting
<1> SUFFICES ASSUME past \in {"calm", "stopped"} PROVE FilesInv'
  BY DEF Stops, StopsWriting, FilesInv, MemoryInv, TypeOK
<1>2. past = "calm" /\ CalmInv
  BY <1>1 DEF FilesInv, StoppedInv, NoWriter
<1>3. OneWriter' /\ NoWriter'
  BY <1>1, <1>2, OnlyWriter DEF NoWriter
<1>4. CASE pc[p] = "open crt"
  <2>1. past' = "calm" /\ WholeOrEmpty'
    BY <1>1, <1>2, <1>4 DEF Stops, StopsWriting, CalmInv, FilesOf, WholeOrEmpty
  <2>2. ASSUME NEW q \in Procs PROVE FilesOf(q)'
    BY <1>3 DEF NoWriter, FilesOf, Writing
  <2> QED BY <1>1, <1>2, <1>3, <2>1, <2>2 DEF CalmInv, FilesInv
<1>5. CASE pc[p] # "open crt"
  <2>1. past' = "stopped"
    BY <1>1, <1>2, <1>5 DEF Stops, StopsWriting
  <2>2. crt # None /\ key \in {None, Torn}
    BY <1>1, <1>2, <1>5, WriterPair, NoneIsNotTorn DEF CalmInv, FilesOf, Writing
  <2> QED BY <1>1, <1>2, <1>3, <2>1, <2>2 DEF CalmInv, StoppedInv, FilesInv
<1> QED BY <1>4, <1>5

\* Nobody writes where a writer has stopped.
LEMMA OtherWrites ==
  ASSUME FilesInv, NEW p \in Procs, pc[p] \in Writing
  PROVE  past # "stopped"
BY DEF FilesInv, StoppedInv, NoWriter

LEMMA WriteCrtStep ==
  ASSUME MemoryInv, FilesInv, NEW p \in Procs, StepOf(p), WriteCrt(p)
  PROVE  FilesInv'
<1> SUFFICES ASSUME CalmInv PROVE CalmInv'
  BY OtherWrites DEF FilesInv, WriteCrt, Writing
<1>1. pc[p] \in Writing /\ UNCHANGED <<key, kubeconfig, pair>>
  BY DEF WriteCrt, Writing, memory
<1>2. CASE pc[p] = "open crt" /\ crt' = Torn /\ Go(p, "write crt")
  <2>1. pc'[p] = "write crt" /\ crt = None /\ key = None
    BY <1>2, GoAt DEF MemoryInv, CalmInv, FilesOf
  <2>2. FilesOf(p)'
    BY <1>1, <1>2, <2>1 DEF FilesOf
  <2>3. kubeconfig' \in {None, Torn}
    BY <1>1, <2>1 DEF CalmInv
  <2>4. ~NoWriter'
    BY <2>1 DEF NoWriter, Writing
  <2> QED BY <1>1, <2>2, <2>3, <2>4, OnlyWriter DEF CalmInv
<1>3. CASE /\ pc[p] = "write crt" /\ crt' = Written(crt, pair[p].crt)
           /\ Go(p, "open key")
  <2>1. pc'[p] = "open key" /\ crt = Torn /\ key = None
    BY <1>3, GoAt DEF MemoryInv, CalmInv, FilesOf
  <2>2. crt' = pair[p].crt
    BY <1>3, <2>1, NoneIsNotTorn DEF Written
  <2>3. FilesOf(p)'
    BY <1>1, <2>1, <2>2 DEF FilesOf
  <2>4. kubeconfig' \in {None, Torn}
    BY <1>1, <2>1 DEF CalmInv
  <2>5. ~NoWriter'
    BY <2>1 DEF NoWriter, Writing
  <2> QED BY <1>1, <2>3, <2>4, <2>5, OnlyWriter DEF CalmInv
<1> QED BY <1>2, <1>3 DEF WriteCrt

LEMMA WriteKeyStep ==
  ASSUME MemoryInv, FilesInv, NEW p \in Procs, StepOf(p), WriteKey(p)
  PROVE  FilesInv'
<1> SUFFICES ASSUME CalmInv PROVE CalmInv'
  BY OtherWrites DEF FilesInv, WriteKey, Writing
<1>1. pc[p] \in Writing /\ UNCHANGED <<crt, kubeconfig, pair>>
  BY DEF WriteKey, Writing, memory
<1>2. crt = pair[p].crt
  BY DEF WriteKey, CalmInv, FilesOf
<1>3. kubeconfig' \notin {None, Torn}' => kubeconfig' = crt'
  BY <1>1 DEF CalmInv
<1>4. CASE pc[p] = "open key" /\ key' = Torn /\ Go(p, "write key")
  <2>1. pc'[p] = "write key"
    BY <1>4, GoAt DEF MemoryInv
  <2>2. FilesOf(p)'
    BY <1>1, <1>2, <1>4, <2>1 DEF FilesOf
  <2>3. ~NoWriter'
    BY <2>1 DEF NoWriter, Writing
  <2> QED BY <1>1, <1>3, <2>2, <2>3, OnlyWriter DEF CalmInv
<1>5. CASE /\ pc[p] = "write key" /\ key' = Written(key, pair[p].key)
           /\ Go(p, "validate")
  <2>1. pc'[p] = "validate" /\ key = Torn
    BY <1>5, GoAt DEF MemoryInv, CalmInv, FilesOf
  <2>2. FilesOf(p)'
    BY <2>1 DEF FilesOf
  <2>3. key' = pair[p].key
    BY <1>5, <2>1, NoneIsNotTorn DEF Written
  <2>4. WholeOrEmpty'
    BY <1>1, <1>2, <2>3, WriterPair DEF WholeOrEmpty, Whole, None
  <2> QED BY <1>1, <1>3, <2>2, <2>4, OnlyWriter DEF CalmInv
<1> QED BY <1>4, <1>5 DEF WriteKey

LEMMA FilesStep ==
  ASSUME MemoryInv, FilesInv, [Next]_vars
  PROVE  FilesInv'
<1>1. ASSUME NEW p \in Procs, StepOf(p) PROVE FilesInv'
  BY <1>1, StepKinds, QuietStep, StopStep, GenerateStep, WriteCrtStep, WriteKeyStep
<1>2. CASE DevKubeconfig
  BY <1>2 DEF DevKubeconfig, FilesInv, CalmInv, StoppedInv, OneWriter, FilesOf,
              NoWriter, WholeOrEmpty, Whole, files, memory
<1>3. CASE DevClean
  <2>1. SUFFICES ASSUME past' = "calm" PROVE CalmInv'
    BY <1>3 DEF FilesInv, DevClean
  <2>2. NoWriter' /\ crt' = None /\ key' = None /\ kubeconfig' = None
    BY <1>3, <2>1 DEF DevClean, NoWriter
  <2> QED BY <2>2 DEF CalmInv, OneWriter, FilesOf, NoWriter, WholeOrEmpty, Writing, None
<1>4. CASE UNCHANGED vars
  BY <1>4 DEF vars, files, memory, FilesInv, CalmInv, StoppedInv, OneWriter, FilesOf,
              NoWriter, WholeOrEmpty, Whole
<1> QED BY <1>1, <1>2, <1>3, <1>4, NextSteps

LEMMA FilesInit == Init => FilesInv
BY DEF Init, FilesInv, CalmInv, OneWriter, FilesOf, NoWriter, WholeOrEmpty, Writing

LEMMA Always == Spec => [](MemoryInv /\ FilesInv)
BY MemoryInit, MemoryStep, FilesInit, FilesStep, PTL DEF Spec

\* While one writer works, its files are of one pair.
LEMMA OnePair ==
  ASSUME MemoryInv, CalmInv
  PROVE  key \in {None, Torn, crt}
<1>1. CASE NoWriter
  BY <1>1 DEF CalmInv, WholeOrEmpty, Whole
<1>2. CASE ~NoWriter
  BY <1>2 DEF CalmInv, NoWriter, FilesOf, Writing
<1> QED BY <1>1, <1>2

\* The directory has a whole pair or none, unless the end of a writer, failed or
\* killed, came halfway, and the files of two pairs never meet, unless writers
\* overlapped or met dev-clean.
THEOREM LifecycleCertsUsable == Spec => []CertsUsable
<1>1. MemoryInv /\ FilesInv => CertsUsable
  <2> SUFFICES ASSUME MemoryInv, FilesInv PROVE CertsUsable
    OBVIOUS
  <2>1. past = "calm" /\ NoWriter => WholeOrEmpty
    BY DEF FilesInv, CalmInv
  <2>2. past # "disturbed" => key \in {None, Torn, crt}
    BY OnePair DEF FilesInv, StoppedInv, MemoryInv, TypeOK
  <2> QED BY <2>1, <2>2 DEF CertsUsable, WholeOrEmpty
<1> QED BY <1>1, Always, PTL

\* A kubeconfig goes on trusting the certificate of the directory, be it whole or
\* what a writer that stopped has left.
THEOREM LifecycleKubeconfigStaysValid == Spec => []KubeconfigStaysValid
<1>1. MemoryInv /\ FilesInv => KubeconfigStaysValid
  BY DEF MemoryInv, TypeOK, FilesInv, CalmInv, StoppedInv, KubeconfigStaysValid
<1> QED BY <1>1, Always, PTL

LEMMA PairStep ==
  ASSUME MemoryInv, FilesInv, [Next]_vars, past = "calm", Whole
  PROVE  crt' \in {None, crt} /\ key' \in {None, key}
<1>1. ASSUME NEW p \in Procs, StepOf(p) PROVE UNCHANGED <<crt, key>>
  <2>1. FilesOf(p)
    BY DEF FilesInv, CalmInv
  <2>2. ~WriteCrt(p) /\ ~WriteKey(p)
    BY <2>1 DEF FilesOf, Whole, WriteCrt, WriteKey
  <2> QED BY <1>1, <2>2, StepKinds DEF Quiet, Stops, StopsWriting, Generate, files
<1> QED BY <1>1, NextSteps DEF DevKubeconfig, DevClean, vars, files

\* Nothing but dev-clean takes a whole pair away, and nothing replaces it.
THEOREM LifecycleWholePairStays == Spec => WholePairStays
<1>1. MemoryInv /\ FilesInv /\ [Next]_vars =>
        [past = "calm" /\ Whole => crt' \in {None, crt} /\ key' \in {None, key}]_vars
  BY PairStep
<1> QED BY <1>1, Always, PTL DEF Spec, WholePairStays
=============================================================================
