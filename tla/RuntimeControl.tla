---------------------------- MODULE RuntimeControl ----------------------------
(***************************************************************************)
(* The commands the upgrade executor sends to a Control process            *)
(* (control/src/runtime_control.rs) on top of its lifecycle.               *)
(*                                                                         *)
(* A readiness evaluation checks the process for seconds and leaves a      *)
(* proof: the revision and the generation of the runner connection it was  *)
(* made for, with a token.  Only a command with the token of the proof     *)
(* opens admission.  Evaluations, openings, closings and retirements run   *)
(* concurrently.  Two locks span several steps: the one of the runner hub  *)
(* is held from the verification of an evaluation to its proof and during  *)
(* an opening; the mutex of the proof is held during an opening and a      *)
(* retirement, and for the single step that takes or stores a proof.       *)
(***************************************************************************)
EXTENDS RequestLifecycle

CONSTANTS Checker,         \* readiness requests that may run at once
          MaxEvaluations,  \* bound: evaluations and discoveries
          MaxGeneration,   \* bound: connections of the runner
          None

ASSUME RuntimeAssumption == MaxEvaluations \in Nat /\ MaxGeneration \in Nat

VARIABLES
  generation,   \* of the runner's current connection
  evaluations,  \* how many evaluations have been begun
  checking,     \* the checker that holds the evaluation lock, or None
  check,        \* the step of a readiness request and what it has read
  proof,        \* the readiness proof, or None
  opener,       \* the opening command that has taken a proof, or None
  closes        \* closing commands that have yet to drop the proof

runtime == <<generation, evaluations, checking, check, proof, opener, closes>>
runtimeVars == <<vars, runtime>>

Idle == [step |-> "idle", revision |-> 0, generation |-> 0]

RuntimeTypeOK ==
  /\ TypeOK
  /\ generation \in 0..MaxGeneration
  /\ evaluations \in 0..MaxEvaluations
  /\ checking \in Checker \cup {None}
  /\ check \in [Checker -> [step : {"idle", "begun", "locked", "probing", "verified"},
                            revision : 0..MaxRevision, generation : 0..MaxGeneration]]
  /\ proof \in {None} \cup [token : 0..MaxEvaluations, revision : 0..MaxRevision,
                             generation : 0..MaxGeneration, fresh : BOOLEAN]
  /\ opener \in {None} \cup [token : 0..MaxEvaluations, revision : 0..MaxRevision,
                              generation : 0..MaxGeneration]
  /\ closes \in 0..MaxRevision

RuntimeInit ==
  /\ Init
  /\ generation = 0
  /\ evaluations = 0
  /\ checking = None
  /\ check = [e \in Checker |-> Idle]
  /\ proof = None
  /\ opener = None
  /\ closes = 0

-----------------------------------------------------------------------------
Alive == main # "exited"

\* The lock of the runner hub, and the mutex of the proof.
HubFree == opener = None /\ \A e \in Checker : check[e].step # "verified"
ProofFree == opener = None

EndCheck(e) ==
  /\ check' = [check EXCEPT ![e] = Idle]
  /\ checking' = IF checking = e THEN None ELSE checking

(***************************************************************************)
(* readiness.                                                              *)
(***************************************************************************)
\* The command names the revision the executor has read.
ReadinessBegin(e) ==
  /\ Alive /\ check[e].step = "idle" /\ ~stopping
  /\ check' = [check EXCEPT ![e].step = "begun", ![e].revision = revision]
  /\ UNCHANGED <<vars, generation, evaluations, checking, proof, opener, closes>>

\* A second evaluation is refused, otherwise the last proof is dropped.
ReadinessLock(e) ==
  /\ Alive /\ check[e].step = "begun"
  /\ IF checking # None
       THEN EndCheck(e) /\ UNCHANGED <<evaluations, proof>>
       ELSE /\ ProofFree /\ evaluations < MaxEvaluations
            /\ checking' = e
            /\ evaluations' = evaluations + 1
            /\ proof' = None
            /\ check' = [check EXCEPT ![e].step = "locked"]
  /\ UNCHANGED <<vars, generation, opener, closes>>

\* The generations of the runners, before they are probed.
ReadinessGenerations(e) ==
  /\ Alive /\ check[e].step = "locked" /\ HubFree
  /\ check' = [check EXCEPT ![e].step = "probing", ![e].generation = generation]
  /\ UNCHANGED <<vars, generation, evaluations, checking, proof, opener, closes>>

\* All checks passed.  The state must still be the one they were made in.
ReadinessVerify(e) ==
  /\ Alive /\ check[e].step = "probing" /\ HubFree
  /\ IF stopping \/ revision # check[e].revision \/ generation # check[e].generation
       THEN EndCheck(e)
       ELSE check' = [check EXCEPT ![e].step = "verified"] /\ UNCHANGED checking
  /\ UNCHANGED <<vars, generation, evaluations, proof, opener, closes>>

ReadinessStore(e) ==
  /\ Alive /\ check[e].step = "verified" /\ ProofFree
  /\ proof' = [token |-> evaluations, revision |-> check[e].revision,
               generation |-> check[e].generation, fresh |-> TRUE]
  /\ EndCheck(e)
  /\ UNCHANGED <<vars, generation, evaluations, opener, closes>>

\* A check failed, the models changed, or the request timed out.
ReadinessFails(e) ==
  /\ Alive /\ check[e].step \in {"begun", "locked", "probing"}
  /\ EndCheck(e)
  /\ UNCHANGED <<vars, generation, evaluations, proof, opener, closes>>

\* readiness_models begins a new evaluation and drops the last proof.
ReadinessModels ==
  /\ Alive /\ ~stopping /\ checking = None /\ ProofFree
  /\ evaluations < MaxEvaluations
  /\ evaluations' = evaluations + 1
  /\ proof' = None
  /\ UNCHANGED <<vars, generation, checking, check, opener, closes>>

\* Ten seconds have passed.
ProofExpires ==
  /\ Alive /\ proof # None /\ ProofFree /\ proof.fresh
  /\ proof' = [proof EXCEPT !.fresh = FALSE]
  /\ UNCHANGED <<vars, generation, evaluations, checking, check, opener, closes>>

\* The runner connects anew (RunnerHub).
Reconnect ==
  /\ Alive /\ HubFree /\ generation < MaxGeneration
  /\ generation' = generation + 1
  /\ UNCHANGED <<vars, evaluations, checking, check, proof, opener, closes>>

(***************************************************************************)
(* admission and retire.                                                   *)
(***************************************************************************)
\* Mistake: the connection of the proof is not compared.
OpenTake_NoGeneration(token, expected) ==
  /\ Alive /\ HubFree
  /\ proof # None /\ proof.token = token /\ proof.revision = expected /\ proof.fresh
  /\ opener' = [token |-> token, revision |-> expected, generation |-> proof.generation]
  /\ proof' = None
  /\ UNCHANGED <<vars, generation, evaluations, checking, check, closes>>

\* An opening takes the valid proof it names.
OpenTake(token, expected) ==
  /\ Alive /\ HubFree
  /\ proof # None /\ proof.token = token /\ proof.revision = expected /\ proof.fresh
  /\ proof.generation = generation
  /\ opener' = [token |-> token, revision |-> expected, generation |-> proof.generation]
  /\ proof' = None
  /\ UNCHANGED <<vars, generation, evaluations, checking, check, closes>>

\* Mistake: the registry is opened without comparing its revision.
OpenSet_NoCompare ==
  /\ opener # None /\ Alive /\ revision < MaxRevision
  /\ accepting' = TRUE /\ revision' = revision + 1
  /\ Notify
  /\ opener' = None
  /\ UNCHANGED <<stopping, arrived, owners, process, waiter, retired,
                 generation, evaluations, checking, check, proof, closes>>

\* ... and opens admission, unless another command came first.
OpenSet ==
  /\ opener # None /\ Alive
  /\ \/ SetAdmission(opener.revision, TRUE)
     \/ /\ stopping \/ revision # opener.revision \/ revision = MaxRevision
        /\ UNCHANGED vars
  /\ opener' = None
  /\ UNCHANGED <<generation, evaluations, checking, check, proof, closes>>

\* A closing command closes first and then drops the proof.
CloseSet(expected) ==
  /\ SetAdmission(expected, FALSE)
  /\ closes' = closes + 1
  /\ UNCHANGED <<generation, evaluations, checking, check, proof, opener>>

CloseTake ==
  /\ Alive /\ closes > 0 /\ ProofFree
  /\ closes' = closes - 1
  /\ proof' = None
  /\ UNCHANGED <<vars, generation, evaluations, checking, check, opener>>

\* retire holds the mutex of the proof throughout.
Retire(expected) ==
  /\ ProofFree
  /\ RetireDrained(expected)
  /\ proof' = None
  /\ UNCHANGED <<generation, evaluations, checking, check, opener, closes>>

RuntimeNext ==
  \/ /\ Requests \/ WaiterSteps \/ ShutdownSignal \/ MainSteps \/ ListenerFails
     /\ UNCHANGED runtime
  \/ \E e \in Checker :
       \/ ReadinessBegin(e) \/ ReadinessLock(e) \/ ReadinessGenerations(e)
       \/ ReadinessVerify(e) \/ ReadinessStore(e) \/ ReadinessFails(e)
  \/ ReadinessModels \/ ProofExpires \/ Reconnect
  \/ \E expected \in 0..MaxRevision :
       \/ \E token \in 1..MaxEvaluations : OpenTake(token, expected)
       \/ CloseSet(expected) \/ Retire(expected)
  \/ OpenSet \/ CloseTake

RuntimeSpec == RuntimeInit /\ [][RuntimeNext]_runtimeVars

RuntimeFairSpec == RuntimeSpec /\ Fairness

-----------------------------------------------------------------------------
(***************************************************************************)
(* Properties.                                                             *)
(***************************************************************************)

\* Admission opens only on the word of the last evaluation that was begun, for
\* the revision it opens and over the runner connection that was probed: no
\* delayed command, reconnected runner or later evaluation slips in between.
OpensOnlyReady ==
  [][~accepting /\ accepting' =>
       /\ opener # None
       /\ opener.token = evaluations
       /\ opener.revision = revision
       /\ opener.generation = generation]_runtimeVars

\* The commands do to the registry what RequestLifecycle allows, and nothing
\* reopens a stopping process.
ImplementsLifecycle == Init /\ [][Next]_vars
=============================================================================
