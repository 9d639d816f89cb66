--------------------------- MODULE Upgrade_proofs ---------------------------
(***************************************************************************)
(* Proofs about upgrades: the preparation of a candidate slot, for any     *)
(* number of restarts of its services, the maintenance executor, for any   *)
(* number of jobs, faults, runners and tokens, and the runtime control of  *)
(* a slot, for any number of requests and admission commands.              *)
(*                                                                         *)
(* The preparation: where the executor stands says what the journals hold, *)
(* and as long as they record no startup the candidate is down.            *)
(***************************************************************************)
EXTENDS MaintenanceUpgrade, SlotPreparation, RuntimeControl, FiniteSetTheorems, SequenceTheorems, TLAPS

\* Neither service of the candidate runs or would start at the next boot.
CandidateDown == \A s \in Service : ~unit[s].enabled /\ Quiescent(s)

\* The steps between the intent and the recorded startup.
PreparingSteps == {"stage", "provision", "material", "token", "finish", "starting"}
Steps == PreparingSteps \cup {"off", "prepare", "begin", "guard", "enable", "start", "observe",
          "confirm", "plan", "handoff", "archive", "claim", "claim2", "abort", "audit"}

Record == [candidate : BOOLEAN, startup : 0..2, capture : Capture \cup {NoCapture},
           abort : AbortPhase \cup {"none", "absent"}]
UnitRecord == [state : {"inactive", "activating", "running", "stopping", "failed"},
               invocation : 0..MaxInvocation, enabled : BOOLEAN]

PrepType == PreparationTypeOK /\ step \in Steps

\* What the journals say where the executor stands: a preparation that is
\* under way is not cancelled, and a transition pins what was captured.
RecordSound ==
  /\ prep # NoPrep => Valid(prep) /\ prep.abort # "absent"
  /\ step \in PreparingSteps => prep.abort = "none" /\ prep.startup = 0 /\ plan = NoCapture
  /\ step = "claim2" => prep.abort = "none" /\ plan = NoCapture
  /\ step = "audit" => prep.abort = "finalizing" /\ plan = NoCapture
  /\ plan # NoCapture => Complete(plan) /\ (prep = NoPrep \/ PermitsHandoff(plan))

\* As long as no startup is recorded and no transition owns the candidate,
\* nothing of it runs; the same holds once its cancellation is complete.
CandidateOwned ==
  /\ step = "audit" \/ prep.abort = "complete" => CandidateDown
  /\ prep.startup = 0 /\ plan = NoCapture => CandidateDown
  /\ prep = NoPrep /\ plan = NoCapture => ~registered
  /\ task = "archived" => /\ ~registered /\ plan = NoCapture /\ step \in {"off", "abort"}
                          /\ prep = NoPrep \/ prep.abort = "complete"

\* A service is stopped only while its captured invocation is retired.
StopPinned ==
  \A s \in Service : unit[s].state = "stopping" => prep.abort = "retiring" /\ Pinned(s)

\* The inductive invariant of the preparation.
PrepInv == PrepType /\ RecordSound /\ CandidateOwned /\ StopPinned

\* A started service keeps the shape of a unit.
LEMMA LaunchedType ==
  ASSUME NEW u \in UnitRecord, u.invocation < MaxInvocation
  PROVE  /\ Launched(u) \in UnitRecord /\ Launched(u).state = "activating"
         /\ Launched(u).enabled = u.enabled
<1>1. u.invocation + 1 \in 0..MaxInvocation BY PreparationAssumption DEF UnitRecord
<1>2. /\ Launched(u).state = "activating" /\ Launched(u).enabled = u.enabled
  BY DEF Launched, UnitRecord
<1>3. Launched(u) = [[u EXCEPT !.state = "activating"] EXCEPT !.invocation = u.invocation + 1]
  BY DEF Launched, UnitRecord
<1>4. [u EXCEPT !.state = "activating"] \in UnitRecord BY DEF UnitRecord
<1>5. Launched(u) \in UnitRecord BY <1>1, <1>3, <1>4 DEF UnitRecord
<1> QED BY <1>2, <1>5

\* One lemma per action.
LEMMA Execute_Keeps ==
  ASSUME PrepInv, Execute
  PROVE  PrepInv'
<1>1. PrepType'
  BY PreparationAssumption DEF PrepInv, PrepType, PreparationTypeOK, Capture, AbortPhase, Steps,
            PreparingSteps, Execute, At, record, around, Service
<1>2. RecordSound'
  BY PreparationAssumption DEF PrepInv, RecordSound, PrepType, PreparationTypeOK, Capture, AbortPhase,
            NoPrep, Steps, PreparingSteps, Execute, At, record, around, Valid,
            PermitsHandoff, Captured, Complete
<1>3. CandidateOwned'
  BY PreparationAssumption DEF PrepInv, RecordSound, CandidateOwned, CandidateDown, Quiescent, PrepType,
            PreparationTypeOK, Capture, AbortPhase, NoPrep, Steps, PreparingSteps,
            Execute, At, record, around, PermitsHandoff, Captured
<1>4. StopPinned'
  BY PreparationAssumption DEF PrepInv, RecordSound, StopPinned, Pinned, Quiescent, PrepType,
            PreparationTypeOK, Capture, AbortPhase, NoPrep, Steps, PreparingSteps,
            Execute, At, record, around, PermitsHandoff, Captured, Absent
<1> QED BY <1>1, <1>2, <1>3, <1>4 DEF PrepInv

LEMMA RunNext_Keeps ==
  ASSUME PrepInv, RunNext
  PROVE  PrepInv'
<1>1. PrepType'
  BY PreparationAssumption DEF PrepInv, PrepType, PreparationTypeOK, Capture, AbortPhase, NoPrep, Steps,
            PreparingSteps, RunNext, At, record, installed, around, Service
<1>2. RecordSound'
  BY PreparationAssumption DEF PrepInv, RecordSound, PrepType, PreparationTypeOK, Capture, AbortPhase,
            NoPrep, Steps, PreparingSteps, RunNext, At, record, installed, around,
            Valid, PermitsHandoff, Captured, Complete
<1>3. CandidateOwned'
  BY PreparationAssumption DEF PrepInv, RecordSound, CandidateOwned, CandidateDown, Quiescent, PrepType,
            PreparationTypeOK, Capture, AbortPhase, NoPrep, Steps, PreparingSteps,
            RunNext, At, record, installed, around, PermitsHandoff, Captured
<1>4. StopPinned'
  BY PreparationAssumption DEF PrepInv, RecordSound, StopPinned, Pinned, Quiescent, PrepType,
            PreparationTypeOK, Capture, AbortPhase, NoPrep, Steps, PreparingSteps,
            RunNext, At, record, installed, around, PermitsHandoff, Captured,
            Absent
<1> QED BY <1>1, <1>2, <1>3, <1>4 DEF PrepInv

LEMMA PrepareIfSupported_Keeps ==
  ASSUME PrepInv, PrepareIfSupported
  PROVE  PrepInv'
<1>1. PrepType'
  BY PreparationAssumption DEF PrepInv, PrepType, PreparationTypeOK, Capture, AbortPhase, NoPrep, Steps,
            PreparingSteps, PrepareIfSupported, At, Continue, OnlyRecord, record,
            installed, around, Service
<1>2. RecordSound'
  BY PreparationAssumption DEF PrepInv, RecordSound, PrepType, PreparationTypeOK, Capture, AbortPhase,
            NoPrep, Steps, PreparingSteps, PrepareIfSupported, At, Continue,
            OnlyRecord, record, installed, around, Valid, PermitsHandoff,
            Captured, Complete
<1>3. CandidateOwned'
  BY PreparationAssumption DEF PrepInv, RecordSound, CandidateOwned, CandidateDown, Quiescent, PrepType,
            PreparationTypeOK, Capture, AbortPhase, NoPrep, Steps, PreparingSteps,
            PrepareIfSupported, At, Continue, OnlyRecord, record, installed,
            around, PermitsHandoff, Captured, CandidateStopped
<1>4. StopPinned'
  BY PreparationAssumption DEF PrepInv, RecordSound, StopPinned, Pinned, Quiescent, PrepType,
            PreparationTypeOK, Capture, AbortPhase, NoPrep, Steps, PreparingSteps,
            PrepareIfSupported, At, Continue, OnlyRecord, record, installed,
            around, PermitsHandoff, Captured, Absent
<1> QED BY <1>1, <1>2, <1>3, <1>4 DEF PrepInv

LEMMA Begin_Keeps ==
  ASSUME PrepInv, Begin
  PROVE  PrepInv'
<1>1. PrepType'
  <2>1. unit' \in [Service -> UnitRecord]
    BY DEF PrepInv, PrepType, PreparationTypeOK, UnitRecord, Begin, At, Continue,
            record, installed
  <2>2. prep' \in Record /\ plan' \in Capture \cup {NoCapture}
    <3>1. [NoPrep EXCEPT !.abort = "none"] \in Record
      <4>1. NoPrep \in Record
        <5>1. 0 \in 0..2 OBVIOUS
        <5> QED BY <5>1, Zenon DEF NoPrep, Record
      <4> QED BY <4>1 DEF Record
    <3>2. prep \in Record /\ plan \in Capture \cup {NoCapture}
      BY DEF PrepInv, PrepType, PreparationTypeOK, Record
    <3> QED BY <3>1, <3>2 DEF Begin, SavePreparation, record
  <2>3. /\ task' \in {"staging", "starting", "failed", "archived"}
        /\ registered' \in BOOLEAN /\ written' \in BOOLEAN /\ edits' \in 0..1
    BY DEF PrepInv, PrepType, PreparationTypeOK, Begin, At, Continue, record,
            installed
  <2>4. /\ retained' \in BOOLEAN /\ booted' \in BOOLEAN /\ inBudget' \in BOOLEAN
    BY ZenonT(30) DEF PrepInv, PrepType, PreparationTypeOK, Begin, At, Continue, record,
            installed
  <2>5. /\ pass' \in {"execute", "resume", "reconcile", "recheck"}
        /\ seen' \in Capture \cup {NoCapture} /\ step' \in Steps
    BY DEF PrepInv, PrepType, PreparationTypeOK, Begin, At, Continue, record,
            installed, Steps, PreparingSteps
  <2> QED BY <2>1, <2>2, <2>3, <2>4, <2>5 DEF PrepType, PreparationTypeOK, UnitRecord, Record
<1>2. RecordSound'
  BY PreparationAssumption DEF PrepInv, RecordSound, PrepType, PreparationTypeOK, Record, Capture,
            AbortPhase, NoPrep, Steps, PreparingSteps, Begin, At, Continue,
            record, installed, SavePreparation, Follows, Valid, PermitsHandoff,
            Captured, Complete
<1>3. CandidateOwned'
  BY PreparationAssumption DEF PrepInv, RecordSound, CandidateOwned, CandidateDown, Quiescent, PrepType,
            PreparationTypeOK, Record, Capture, AbortPhase, NoPrep, Steps,
            PreparingSteps, Begin, At, Continue, record, installed,
            SavePreparation, PermitsHandoff, Captured
<1>4. StopPinned'
  BY PreparationAssumption DEF PrepInv, RecordSound, StopPinned, Pinned, Quiescent, PrepType,
            PreparationTypeOK, Record, Capture, AbortPhase, NoPrep, Steps,
            PreparingSteps, Begin, At, Continue, record, installed,
            SavePreparation, PermitsHandoff, Captured, Absent
<1> QED BY <1>1, <1>2, <1>3, <1>4 DEF PrepInv

LEMMA Stage_Keeps ==
  ASSUME PrepInv, Stage
  PROVE  PrepInv'
<1>1. PrepType'
  BY PreparationAssumption DEF PrepInv, PrepType, PreparationTypeOK, Capture, AbortPhase, Steps,
            PreparingSteps, Stage, At, Continue, OnlyRecord, record, installed,
            around, Service
<1>2. RecordSound'
  BY PreparationAssumption DEF PrepInv, RecordSound, PrepType, PreparationTypeOK, Capture, AbortPhase,
            NoPrep, Steps, PreparingSteps, Stage, At, Continue, OnlyRecord,
            record, installed, around, Valid, PermitsHandoff, Captured, Complete
<1>3. CandidateOwned'
  BY PreparationAssumption DEF PrepInv, RecordSound, CandidateOwned, CandidateDown, Quiescent, PrepType,
            PreparationTypeOK, Capture, AbortPhase, NoPrep, Steps, PreparingSteps,
            Stage, At, Continue, OnlyRecord, record, installed, around,
            PermitsHandoff, Captured, CandidateStopped
<1>4. StopPinned'
  BY PreparationAssumption DEF PrepInv, RecordSound, StopPinned, Pinned, Quiescent, PrepType,
            PreparationTypeOK, Capture, AbortPhase, NoPrep, Steps, PreparingSteps,
            Stage, At, Continue, OnlyRecord, record, installed, around,
            PermitsHandoff, Captured, Absent
<1> QED BY <1>1, <1>2, <1>3, <1>4 DEF PrepInv

LEMMA ProvisionIdentity_Keeps ==
  ASSUME PrepInv, ProvisionIdentity
  PROVE  PrepInv'
<1>1. PrepType'
  BY PreparationAssumption DEF PrepInv, PrepType, PreparationTypeOK, Capture, AbortPhase, Steps,
            PreparingSteps, ProvisionIdentity, At, Continue, record, around,
            Service
<1>2. RecordSound'
  BY PreparationAssumption DEF PrepInv, RecordSound, PrepType, PreparationTypeOK, Capture, AbortPhase,
            NoPrep, Steps, PreparingSteps, ProvisionIdentity, At, Continue,
            record, around, Valid, PermitsHandoff, Captured, Complete
<1>3. CandidateOwned'
  BY PreparationAssumption DEF PrepInv, RecordSound, CandidateOwned, CandidateDown, Quiescent, PrepType,
            PreparationTypeOK, Capture, AbortPhase, NoPrep, Steps, PreparingSteps,
            ProvisionIdentity, At, Continue, record, around, PermitsHandoff,
            Captured
<1>4. StopPinned'
  BY PreparationAssumption DEF PrepInv, RecordSound, StopPinned, Pinned, Quiescent, PrepType,
            PreparationTypeOK, Capture, AbortPhase, NoPrep, Steps, PreparingSteps,
            ProvisionIdentity, At, Continue, record, around, PermitsHandoff,
            Captured, Absent
<1> QED BY <1>1, <1>2, <1>3, <1>4 DEF PrepInv

LEMMA WriteRunnerMaterial_Keeps ==
  ASSUME PrepInv, WriteRunnerMaterial
  PROVE  PrepInv'
<1>1. PrepType'
  BY PreparationAssumption DEF PrepInv, PrepType, PreparationTypeOK, Capture, AbortPhase, Steps,
            PreparingSteps, WriteRunnerMaterial, At, Continue, OnlyRecord, record,
            installed, around, Service
<1>2. RecordSound'
  BY PreparationAssumption DEF PrepInv, RecordSound, PrepType, PreparationTypeOK, Capture, AbortPhase,
            NoPrep, Steps, PreparingSteps, WriteRunnerMaterial, At, Continue,
            OnlyRecord, record, installed, around, Valid, PermitsHandoff,
            Captured, Complete
<1>3. CandidateOwned'
  BY PreparationAssumption DEF PrepInv, RecordSound, CandidateOwned, CandidateDown, Quiescent, PrepType,
            PreparationTypeOK, Capture, AbortPhase, NoPrep, Steps, PreparingSteps,
            WriteRunnerMaterial, At, Continue, OnlyRecord, record, installed,
            around, PermitsHandoff, Captured
<1>4. StopPinned'
  BY PreparationAssumption DEF PrepInv, RecordSound, StopPinned, Pinned, Quiescent, PrepType,
            PreparationTypeOK, Capture, AbortPhase, NoPrep, Steps, PreparingSteps,
            WriteRunnerMaterial, At, Continue, OnlyRecord, record, installed,
            around, PermitsHandoff, Captured, Absent
<1> QED BY <1>1, <1>2, <1>3, <1>4 DEF PrepInv

LEMMA WriteControlMaterial_Keeps ==
  ASSUME PrepInv, WriteControlMaterial
  PROVE  PrepInv'
<1>1. PrepType'
  BY PreparationAssumption DEF PrepInv, PrepType, PreparationTypeOK, Capture, AbortPhase, Steps,
            PreparingSteps, WriteControlMaterial, At, Continue, record, around,
            Service
<1>2. RecordSound'
  BY PreparationAssumption DEF PrepInv, RecordSound, PrepType, PreparationTypeOK, Capture, AbortPhase,
            NoPrep, Steps, PreparingSteps, WriteControlMaterial, At, Continue,
            record, around, Valid, PermitsHandoff, Captured, Complete
<1>3. CandidateOwned'
  BY PreparationAssumption DEF PrepInv, RecordSound, CandidateOwned, CandidateDown, Quiescent, PrepType,
            PreparationTypeOK, Capture, AbortPhase, NoPrep, Steps, PreparingSteps,
            WriteControlMaterial, At, Continue, record, around, PermitsHandoff,
            Captured
<1>4. StopPinned'
  BY PreparationAssumption DEF PrepInv, RecordSound, StopPinned, Pinned, Quiescent, PrepType,
            PreparationTypeOK, Capture, AbortPhase, NoPrep, Steps, PreparingSteps,
            WriteControlMaterial, At, Continue, record, around, PermitsHandoff,
            Captured, Absent
<1> QED BY <1>1, <1>2, <1>3, <1>4 DEF PrepInv

LEMMA Provisioned_Keeps ==
  ASSUME PrepInv, Provisioned
  PROVE  PrepInv'
<1>1. PrepType'
  BY PreparationAssumption DEF PrepInv, PrepType, PreparationTypeOK, Capture, AbortPhase, Steps,
            PreparingSteps, Provisioned, At, Continue, OnlyRecord, installed,
            around, SavePreparation, Service
<1>2. RecordSound'
  BY PreparationAssumption DEF PrepInv, RecordSound, PrepType, PreparationTypeOK, Capture, AbortPhase,
            NoPrep, Steps, PreparingSteps, Provisioned, At, Continue, OnlyRecord,
            record, installed, around, SavePreparation, Follows, Valid,
            PermitsHandoff, Captured, Complete
<1>3. CandidateOwned'
  BY PreparationAssumption DEF PrepInv, RecordSound, CandidateOwned, CandidateDown, Quiescent, PrepType,
            PreparationTypeOK, Capture, AbortPhase, NoPrep, Steps, PreparingSteps,
            Provisioned, At, Continue, OnlyRecord, installed, around,
            SavePreparation, PermitsHandoff, Captured
<1>4. StopPinned'
  BY PreparationAssumption DEF PrepInv, RecordSound, StopPinned, Pinned, Quiescent, PrepType,
            PreparationTypeOK, Capture, AbortPhase, NoPrep, Steps, PreparingSteps,
            Provisioned, At, Continue, OnlyRecord, installed, around,
            SavePreparation, PermitsHandoff, Captured, Absent
<1> QED BY <1>1, <1>2, <1>3, <1>4 DEF PrepInv

LEMMA Starting_Keeps ==
  ASSUME PrepInv, Starting
  PROVE  PrepInv'
<1>1. PrepType'
  BY PreparationAssumption DEF PrepInv, PrepType, PreparationTypeOK, Capture, AbortPhase, Steps,
            PreparingSteps, Starting, At, Continue, installed, around,
            SavePreparation, Fingerprint, Service
<1>2. RecordSound'
  BY PreparationAssumption DEF PrepInv, RecordSound, PrepType, PreparationTypeOK, Capture, AbortPhase,
            NoPrep, Steps, PreparingSteps, Starting, At, Continue, record,
            installed, around, SavePreparation, Follows, Valid, PermitsHandoff,
            Captured, Fingerprint, Complete
<1>3. CandidateOwned'
  BY PreparationAssumption DEF PrepInv, RecordSound, CandidateOwned, CandidateDown, Quiescent, PrepType,
            PreparationTypeOK, Capture, AbortPhase, NoPrep, Steps, PreparingSteps,
            Starting, At, Continue, installed, around, SavePreparation,
            PermitsHandoff, Captured, Fingerprint
<1>4. StopPinned'
  BY PreparationAssumption DEF PrepInv, RecordSound, StopPinned, Pinned, Quiescent, PrepType,
            PreparationTypeOK, Capture, AbortPhase, NoPrep, Steps, PreparingSteps,
            Starting, At, Continue, installed, around, SavePreparation,
            PermitsHandoff, Captured, Absent
<1> QED BY <1>1, <1>2, <1>3, <1>4 DEF PrepInv

LEMMA Drive_Keeps ==
  ASSUME PrepInv, Drive
  PROVE  PrepInv'
<1>1. PrepType'
  BY PreparationAssumption DEF PrepInv, PrepType, PreparationTypeOK, Capture, AbortPhase, Steps,
            PreparingSteps, Drive, At, Continue, OnlyRecord, record, installed,
            around, Service
<1>2. RecordSound'
  BY PreparationAssumption DEF PrepInv, RecordSound, PrepType, PreparationTypeOK, Capture, AbortPhase,
            NoPrep, Steps, PreparingSteps, Drive, At, Continue, OnlyRecord,
            record, installed, around, Valid, PermitsHandoff, Captured,
            Fingerprint, Guard, AcceptsObservation, Complete
<1>3. CandidateOwned'
  BY PreparationAssumption DEF PrepInv, RecordSound, CandidateOwned, CandidateDown, Quiescent, PrepType,
            PreparationTypeOK, Capture, AbortPhase, NoPrep, Steps, PreparingSteps,
            Drive, At, Continue, OnlyRecord, record, installed, around,
            PermitsHandoff, Captured, Guard, InstalledVerified, ValidBinding,
            AcceptsObservation, Fingerprint
<1>4. StopPinned'
  BY PreparationAssumption DEF PrepInv, RecordSound, StopPinned, Pinned, Quiescent, PrepType,
            PreparationTypeOK, Capture, AbortPhase, NoPrep, Steps, PreparingSteps,
            Drive, At, Continue, OnlyRecord, record, installed, around,
            PermitsHandoff, Captured, Guard, Absent
<1> QED BY <1>1, <1>2, <1>3, <1>4 DEF PrepInv

LEMMA DispatchEnable_Keeps ==
  ASSUME PrepInv, DispatchEnable
  PROVE  PrepInv'
<1>1. PrepType'
  <2>1. unit' \in [Service -> UnitRecord]
    <3>1. ASSUME NEW s \in Service PROVE [unit[s] EXCEPT !.enabled = TRUE] \in UnitRecord
      BY LaunchedType DEF PrepInv, PrepType, PreparationTypeOK, UnitRecord, DispatchEnable
    <3> QED BY <3>1 DEF DispatchEnable
  <2>2. prep' \in Record /\ plan' \in Capture \cup {NoCapture}
    BY PreparationAssumption DEF PrepInv, PrepType, PreparationTypeOK, Record, UnitRecord, Capture,
            AbortPhase, Steps, PreparingSteps, DispatchEnable, At, Continue,
            record, installed, around
  <2>3. /\ task' \in {"staging", "starting", "failed", "archived"}
        /\ registered' \in BOOLEAN /\ written' \in BOOLEAN /\ edits' \in 0..1
    BY DEF PrepInv, PrepType, PreparationTypeOK, DispatchEnable, At, Continue,
            record, installed, around
  <2>4. /\ retained' \in BOOLEAN /\ booted' \in BOOLEAN /\ inBudget' \in BOOLEAN
    BY ZenonT(30) DEF PrepInv, PrepType, PreparationTypeOK, DispatchEnable, At, Continue,
            record, installed, around
  <2>5. /\ pass' \in {"execute", "resume", "reconcile", "recheck"}
        /\ seen' \in Capture \cup {NoCapture} /\ step' \in Steps
    BY DEF PrepInv, PrepType, PreparationTypeOK, DispatchEnable, At, Continue,
            record, installed, around, Steps, PreparingSteps
  <2> QED BY <2>1, <2>2, <2>3, <2>4, <2>5 DEF PrepType, PreparationTypeOK, UnitRecord, Record
<1>2. RecordSound'
  BY PreparationAssumption DEF PrepInv, RecordSound, PrepType, PreparationTypeOK, Record, Capture,
            AbortPhase, NoPrep, Steps, PreparingSteps, DispatchEnable, At,
            Continue, record, installed, around, Valid, PermitsHandoff, Captured,
            Fingerprint, Guard, AcceptsObservation, Complete
<1>3. CandidateOwned'
  BY PreparationAssumption DEF PrepInv, RecordSound, CandidateOwned, CandidateDown, Quiescent, PrepType,
            PreparationTypeOK, Record, Capture, AbortPhase, NoPrep, Steps,
            PreparingSteps, DispatchEnable, At, Continue, record, installed,
            around, PermitsHandoff, Captured, Guard, InstalledVerified,
            ValidBinding, AcceptsObservation, Fingerprint
<1>4. StopPinned'
  BY PreparationAssumption DEF PrepInv, RecordSound, StopPinned, Pinned, Quiescent, PrepType,
            PreparationTypeOK, Record, Capture, AbortPhase, NoPrep, Steps,
            PreparingSteps, DispatchEnable, At, Continue, record, installed,
            around, PermitsHandoff, Captured, Guard, Absent
<1> QED BY <1>1, <1>2, <1>3, <1>4 DEF PrepInv

LEMMA DispatchStart_Keeps ==
  ASSUME PrepInv, DispatchStart
  PROVE  PrepInv'
<1>1. PrepType'
  <2>1. unit' \in [Service -> UnitRecord]
    <3>1. ASSUME NEW s \in Service PROVE (IF Quiescent(s) THEN Launched(unit[s]) ELSE unit[s]) \in UnitRecord
      BY LaunchedType DEF PrepInv, PrepType, PreparationTypeOK, UnitRecord, DispatchStart
    <3> QED BY <3>1 DEF DispatchStart
  <2>2. prep' \in Record /\ plan' \in Capture \cup {NoCapture}
    BY PreparationAssumption DEF PrepInv, PrepType, PreparationTypeOK, Record, UnitRecord, Capture,
            AbortPhase, Steps, PreparingSteps, DispatchStart, At, Continue,
            record, installed, around
  <2>3. /\ task' \in {"staging", "starting", "failed", "archived"}
        /\ registered' \in BOOLEAN /\ written' \in BOOLEAN /\ edits' \in 0..1
    BY DEF PrepInv, PrepType, PreparationTypeOK, DispatchStart, At, Continue,
            record, installed, around
  <2>4. /\ retained' \in BOOLEAN /\ booted' \in BOOLEAN /\ inBudget' \in BOOLEAN
    BY ZenonT(30) DEF PrepInv, PrepType, PreparationTypeOK, DispatchStart, At, Continue,
            record, installed, around
  <2>5. /\ pass' \in {"execute", "resume", "reconcile", "recheck"}
        /\ seen' \in Capture \cup {NoCapture} /\ step' \in Steps
    BY DEF PrepInv, PrepType, PreparationTypeOK, DispatchStart, At, Continue,
            record, installed, around, Steps, PreparingSteps
  <2> QED BY <2>1, <2>2, <2>3, <2>4, <2>5 DEF PrepType, PreparationTypeOK, UnitRecord, Record
<1>2. RecordSound'
  BY PreparationAssumption DEF PrepInv, RecordSound, PrepType, PreparationTypeOK, Record, Capture,
            AbortPhase, NoPrep, Steps, PreparingSteps, DispatchStart, At,
            Continue, record, installed, around, Valid, PermitsHandoff, Captured,
            Fingerprint, Guard, AcceptsObservation, Complete
<1>3. CandidateOwned'
  <2>1. prep.startup # 0 /\ prep.abort = "none" /\ plan = NoCapture /\ task = "starting"
    BY DEF PrepInv, PrepType, PreparationTypeOK, DispatchStart, Guard,
            InstalledVerified, ValidBinding, AcceptsObservation, Fingerprint
  <2>2. step' = "observe" /\ UNCHANGED <<prep, plan, task, registered>>
    BY DEF DispatchStart, At, Continue, record, installed, around
  <2> QED BY <2>1, <2>2 DEF CandidateOwned, NoPrep
<1>4. StopPinned'
  BY PreparationAssumption DEF PrepInv, RecordSound, StopPinned, Pinned, Quiescent, PrepType,
            PreparationTypeOK, Record, Capture, AbortPhase, NoPrep, Steps,
            PreparingSteps, DispatchStart, At, Continue, record, installed,
            around, PermitsHandoff, Captured, Guard, Absent, Launched
<1> QED BY <1>1, <1>2, <1>3, <1>4 DEF PrepInv

LEMMA ObserveActivation_Keeps ==
  ASSUME PrepInv, ObserveActivation
  PROVE  PrepInv'
<1>1. PrepType'
  BY PreparationAssumption DEF PrepInv, PrepType, PreparationTypeOK, Capture, AbortPhase, Steps,
            PreparingSteps, ObserveActivation, At, record, installed, around,
            Observed, Service
<1>2. RecordSound'
  BY PreparationAssumption DEF PrepInv, RecordSound, PrepType, PreparationTypeOK, Capture, AbortPhase,
            NoPrep, Steps, PreparingSteps, ObserveActivation, At, record,
            installed, around, Valid, PermitsHandoff, Captured, Fingerprint,
            Guard, AcceptsObservation, Complete
<1>3. CandidateOwned'
  BY PreparationAssumption DEF PrepInv, RecordSound, CandidateOwned, CandidateDown, Quiescent, PrepType,
            PreparationTypeOK, Capture, AbortPhase, NoPrep, Steps, PreparingSteps,
            ObserveActivation, At, record, installed, around, PermitsHandoff,
            Captured, Guard, InstalledVerified, ValidBinding, AcceptsObservation,
            Fingerprint
<1>4. StopPinned'
  BY PreparationAssumption DEF PrepInv, RecordSound, StopPinned, Pinned, Quiescent, PrepType,
            PreparationTypeOK, Capture, AbortPhase, NoPrep, Steps, PreparingSteps,
            ObserveActivation, At, record, installed, around, PermitsHandoff,
            Captured, Guard, Absent
<1> QED BY <1>1, <1>2, <1>3, <1>4 DEF PrepInv

LEMMA ConfirmActivation_Keeps ==
  ASSUME PrepInv, ConfirmActivation
  PROVE  PrepInv'
<1>1. PrepType'
  BY PreparationAssumption DEF PrepInv, PrepType, PreparationTypeOK, Capture, AbortPhase, Steps,
            PreparingSteps, ConfirmActivation, At, record, installed, around,
            SavePreparation, Observed, Service, AfterStartup
<1>2. RecordSound'
  BY PreparationAssumption DEF PrepInv, RecordSound, PrepType, PreparationTypeOK, Capture, AbortPhase,
            NoPrep, Steps, PreparingSteps, ConfirmActivation, At, record,
            installed, around, SavePreparation, Follows, Valid, PermitsHandoff,
            Captured, Fingerprint, Guard, AcceptsObservation, Complete,
            AfterStartup
<1>3. CandidateOwned'
  BY PreparationAssumption DEF PrepInv, RecordSound, CandidateOwned, CandidateDown, Quiescent, PrepType,
            PreparationTypeOK, Capture, AbortPhase, NoPrep, Steps, PreparingSteps,
            ConfirmActivation, At, record, installed, around, SavePreparation,
            PermitsHandoff, Captured, Guard, InstalledVerified, ValidBinding,
            AcceptsObservation, Fingerprint, AfterStartup
<1>4. StopPinned'
  BY PreparationAssumption DEF PrepInv, RecordSound, StopPinned, Pinned, Quiescent, PrepType,
            PreparationTypeOK, Capture, AbortPhase, NoPrep, Steps, PreparingSteps,
            ConfirmActivation, At, record, installed, around, SavePreparation,
            PermitsHandoff, Captured, Guard, Absent
<1> QED BY <1>1, <1>2, <1>3, <1>4 DEF PrepInv

LEMMA ObservePlan_Keeps ==
  ASSUME PrepInv, ObservePlan
  PROVE  PrepInv'
<1>1. PrepType'
  BY PreparationAssumption DEF PrepInv, PrepType, PreparationTypeOK, Capture, AbortPhase, Steps,
            PreparingSteps, ObservePlan, At, record, installed, around, Observed,
            Service
<1>2. RecordSound'
  BY PreparationAssumption DEF PrepInv, RecordSound, PrepType, PreparationTypeOK, Capture, AbortPhase,
            NoPrep, Steps, PreparingSteps, ObservePlan, At, record, installed,
            around, Valid, PermitsHandoff, Captured, Fingerprint,
            AcceptsObservation, Complete
<1>3. CandidateOwned'
  BY PreparationAssumption DEF PrepInv, RecordSound, CandidateOwned, CandidateDown, Quiescent, PrepType,
            PreparationTypeOK, Capture, AbortPhase, NoPrep, Steps, PreparingSteps,
            ObservePlan, At, record, installed, around, PermitsHandoff, Captured,
            AcceptsObservation, Fingerprint
<1>4. StopPinned'
  BY PreparationAssumption DEF PrepInv, RecordSound, StopPinned, Pinned, Quiescent, PrepType,
            PreparationTypeOK, Capture, AbortPhase, NoPrep, Steps, PreparingSteps,
            ObservePlan, At, record, installed, around, PermitsHandoff, Captured,
            Absent
<1> QED BY <1>1, <1>2, <1>3, <1>4 DEF PrepInv

LEMMA Handoff_Keeps ==
  ASSUME PrepInv, Handoff
  PROVE  PrepInv'
<1>1. PrepType'
  BY PreparationAssumption DEF PrepInv, PrepType, PreparationTypeOK, Capture, AbortPhase, Steps,
            PreparingSteps, Handoff, At, Continue, OnlyRecord, installed, around,
            Service
<1>2. RecordSound'
  BY PreparationAssumption DEF PrepInv, RecordSound, PrepType, PreparationTypeOK, Capture, AbortPhase,
            NoPrep, Steps, PreparingSteps, Handoff, At, Continue, OnlyRecord,
            record, installed, around, Valid, PermitsHandoff, Captured, Complete
<1>3. CandidateOwned'
  BY PreparationAssumption DEF PrepInv, RecordSound, CandidateOwned, CandidateDown, Quiescent, PrepType,
            PreparationTypeOK, Capture, AbortPhase, NoPrep, Steps, PreparingSteps,
            Handoff, At, Continue, OnlyRecord, installed, around, PermitsHandoff,
            Captured
<1>4. StopPinned'
  BY PreparationAssumption DEF PrepInv, RecordSound, StopPinned, Pinned, Quiescent, PrepType,
            PreparationTypeOK, Capture, AbortPhase, NoPrep, Steps, PreparingSteps,
            Handoff, At, Continue, OnlyRecord, installed, around, PermitsHandoff,
            Captured, Absent
<1> QED BY <1>1, <1>2, <1>3, <1>4 DEF PrepInv

LEMMA ArchivePreparation_Keeps ==
  ASSUME PrepInv, ArchivePreparation
  PROVE  PrepInv'
<1>1. PrepType'
  BY PreparationAssumption DEF PrepInv, PrepType, PreparationTypeOK, Capture, AbortPhase, NoPrep, Steps,
            PreparingSteps, ArchivePreparation, At, Continue, OnlyRecord,
            installed, around, Service
<1>2. RecordSound'
  BY PreparationAssumption DEF PrepInv, RecordSound, PrepType, PreparationTypeOK, Capture, AbortPhase,
            NoPrep, Steps, PreparingSteps, ArchivePreparation, At, Continue,
            OnlyRecord, record, installed, around, Valid, PermitsHandoff,
            Captured, Complete
<1>3. CandidateOwned'
  BY PreparationAssumption DEF PrepInv, RecordSound, CandidateOwned, CandidateDown, Quiescent, PrepType,
            PreparationTypeOK, Capture, AbortPhase, NoPrep, Steps, PreparingSteps,
            ArchivePreparation, At, Continue, OnlyRecord, installed, around,
            PermitsHandoff, Captured
<1>4. StopPinned'
  BY PreparationAssumption DEF PrepInv, RecordSound, StopPinned, Pinned, Quiescent, PrepType,
            PreparationTypeOK, Capture, AbortPhase, NoPrep, Steps, PreparingSteps,
            ArchivePreparation, At, Continue, OnlyRecord, installed, around,
            PermitsHandoff, Captured, Absent
<1> QED BY <1>1, <1>2, <1>3, <1>4 DEF PrepInv

LEMMA ClaimObserves_Keeps ==
  ASSUME PrepInv, ClaimObserves
  PROVE  PrepInv'
<1>1. PrepType'
  BY PreparationAssumption DEF PrepInv, PrepType, PreparationTypeOK, Capture, AbortPhase, NoPrep, Steps,
            PreparingSteps, ClaimObserves, At, record, installed, around,
            Fingerprint, Observed, Service
<1>2. RecordSound'
  BY PreparationAssumption DEF PrepInv, RecordSound, PrepType, PreparationTypeOK, Capture, AbortPhase,
            NoPrep, Steps, PreparingSteps, ClaimObserves, At, record, installed,
            around, Valid, PermitsHandoff, Captured, Fingerprint, Complete,
            RetainedGuard
<1>3. CandidateOwned'
  BY PreparationAssumption DEF PrepInv, RecordSound, CandidateOwned, CandidateDown, Quiescent, PrepType,
            PreparationTypeOK, Capture, AbortPhase, NoPrep, Steps, PreparingSteps,
            ClaimObserves, At, record, installed, around, PermitsHandoff,
            Captured, Fingerprint, RetainedGuard
<1>4. StopPinned'
  BY PreparationAssumption DEF PrepInv, RecordSound, StopPinned, Pinned, Quiescent, PrepType,
            PreparationTypeOK, Capture, AbortPhase, NoPrep, Steps, PreparingSteps,
            ClaimObserves, At, record, installed, around, PermitsHandoff,
            Captured, Absent
<1> QED BY <1>1, <1>2, <1>3, <1>4 DEF PrepInv

LEMMA ClaimSaves_Keeps ==
  ASSUME PrepInv, ClaimSaves
  PROVE  PrepInv'
<1>1. PrepType'
  <2>1. unit' \in [Service -> UnitRecord]
    BY DEF PrepInv, PrepType, PreparationTypeOK, UnitRecord, ClaimSaves, At,
            installed, around
  <2>2. prep' \in Record /\ plan' \in Capture \cup {NoCapture}
    BY PreparationAssumption DEF PrepInv, PrepType, PreparationTypeOK, Record, UnitRecord, Capture,
            AbortPhase, Steps, PreparingSteps, ClaimSaves, At, installed, around,
            SavePreparation, Cancelled, Observed, Fingerprint
  <2>3. /\ task' \in {"staging", "starting", "failed", "archived"}
        /\ registered' \in BOOLEAN /\ written' \in BOOLEAN /\ edits' \in 0..1
    BY DEF PrepInv, PrepType, PreparationTypeOK, ClaimSaves, At, installed, around
  <2>4. /\ retained' \in BOOLEAN /\ booted' \in BOOLEAN /\ inBudget' \in BOOLEAN
    BY ZenonT(30) DEF PrepInv, PrepType, PreparationTypeOK, ClaimSaves, At, installed, around
  <2>5. /\ pass' \in {"execute", "resume", "reconcile", "recheck"}
        /\ seen' \in Capture \cup {NoCapture} /\ step' \in Steps
    BY DEF PrepInv, PrepType, PreparationTypeOK, ClaimSaves, At, installed, around,
            Steps, PreparingSteps
  <2> QED BY <2>1, <2>2, <2>3, <2>4, <2>5 DEF PrepType, PreparationTypeOK, UnitRecord, Record
<1>2. RecordSound'
  BY PreparationAssumption DEF PrepInv, RecordSound, PrepType, PreparationTypeOK, Record, Capture,
            AbortPhase, NoPrep, Steps, PreparingSteps, ClaimSaves, At, record,
            installed, around, SavePreparation, Follows, Valid, PermitsHandoff,
            Captured, Fingerprint, Cancelled, Complete, RetainedGuard
<1>3. CandidateOwned'
  BY PreparationAssumption DEF PrepInv, RecordSound, CandidateOwned, CandidateDown, Quiescent, PrepType,
            PreparationTypeOK, Record, Capture, AbortPhase, NoPrep, Steps,
            PreparingSteps, ClaimSaves, At, installed, around, SavePreparation,
            PermitsHandoff, Captured, Fingerprint, Cancelled, RetainedGuard,
            CandidateGuard, FinalizedInactive, CandidateStopped
<1>4. StopPinned'
  BY PreparationAssumption DEF PrepInv, RecordSound, StopPinned, Pinned, Quiescent, PrepType,
            PreparationTypeOK, Record, Capture, AbortPhase, NoPrep, Steps,
            PreparingSteps, ClaimSaves, At, installed, around, SavePreparation,
            PermitsHandoff, Captured, Cancelled, CandidateGuard, Absent
<1> QED BY <1>1, <1>2, <1>3, <1>4 DEF PrepInv

LEMMA AbortAdvances_Keeps ==
  ASSUME PrepInv, AbortAdvances
  PROVE  PrepInv'
<1>1. PrepType'
  BY PreparationAssumption DEF PrepInv, PrepType, PreparationTypeOK, Capture, AbortPhase, NoPrep, Steps,
            PreparingSteps, AbortAdvances, At, Continue, OnlyRecord, installed,
            around, SavePreparation, Service, Aborting
<1>2. RecordSound'
  BY PreparationAssumption DEF PrepInv, RecordSound, PrepType, PreparationTypeOK, Capture, AbortPhase,
            NoPrep, Steps, PreparingSteps, AbortAdvances, At, Continue,
            OnlyRecord, record, installed, around, SavePreparation, Follows,
            Valid, PermitsHandoff, Captured, Complete, Aborting, RetainedGuard
<1>3. CandidateOwned'
  <2>1. /\ step' = "abort" /\ plan' = plan /\ prep'.abort # "complete" /\ prep'.startup = prep.startup
        /\ prep # NoPrep /\ prep' # NoPrep /\ prep.abort # "complete"
    BY DEF PrepInv, PrepType, PreparationTypeOK, AbortAdvances, Aborting,
            SavePreparation, At, Continue, OnlyRecord, installed, around, NoPrep,
            AbortPhase
  <2>2. UNCHANGED <<unit, task, registered>>
    BY DEF AbortAdvances, Continue, OnlyRecord, installed, around
  <2> QED BY <2>1, <2>2 DEF PrepInv, CandidateOwned, CandidateDown, Quiescent
<1>4. StopPinned'
  BY PreparationAssumption DEF PrepInv, RecordSound, StopPinned, Pinned, Quiescent, PrepType,
            PreparationTypeOK, Capture, AbortPhase, NoPrep, Steps, PreparingSteps,
            AbortAdvances, At, Continue, OnlyRecord, installed, around,
            SavePreparation, PermitsHandoff, Captured, Aborting, CandidateGuard,
            Absent
<1> QED BY <1>1, <1>2, <1>3, <1>4 DEF PrepInv

LEMMA CandidateRetired_Keeps ==
  ASSUME PrepInv, CandidateRetired
  PROVE  PrepInv'
<1>1. PrepType'
  BY PreparationAssumption DEF PrepInv, PrepType, PreparationTypeOK, Capture, AbortPhase, Steps,
            PreparingSteps, CandidateRetired, At, Continue, OnlyRecord, installed,
            around, SavePreparation, Service, Aborting
<1>2. RecordSound'
  BY PreparationAssumption DEF PrepInv, RecordSound, PrepType, PreparationTypeOK, Capture, AbortPhase,
            NoPrep, Steps, PreparingSteps, CandidateRetired, At, Continue,
            OnlyRecord, record, installed, around, SavePreparation, Follows,
            Valid, PermitsHandoff, Captured, Complete, Aborting, RetainedGuard
<1>3. CandidateOwned'
  BY PreparationAssumption DEF PrepInv, RecordSound, CandidateOwned, CandidateDown, Quiescent, PrepType,
            PreparationTypeOK, Capture, AbortPhase, NoPrep, Steps, PreparingSteps,
            CandidateRetired, At, Continue, OnlyRecord, installed, around,
            SavePreparation, PermitsHandoff, Captured, Aborting, RetainedGuard,
            CandidateGuard, FinalizedInactive, CandidateStopped
<1>4. StopPinned'
  <2>1. \A s \in Service : unit[s].state # "stopping"
    <3>1. ASSUME NEW s \in Service PROVE unit[s].state # "stopping"
      <4>1. prep.abort = "retiring" /\ Exited(s) /\ CandidateGuard(prep)
        BY DEF CandidateRetired, Aborting
      <4>2. Captured(prep)
        BY <4>1 DEF PrepInv, RecordSound, Valid, NoPrep
      <4>3. Absent(prep) BY <4>1, <4>2 DEF CandidateGuard
      <4> QED BY <4>1, <4>3 DEF Exited, Absent, Quiescent
    <3> QED BY <3>1
  <2> QED BY <2>1 DEF StopPinned, CandidateRetired, Continue, OnlyRecord, installed, around
<1> QED BY <1>1, <1>2, <1>3, <1>4 DEF PrepInv

LEMMA DisableCandidate_Keeps ==
  ASSUME PrepInv, DisableCandidate
  PROVE  PrepInv'
<1>1. PrepType'
  <2>1. unit' \in [Service -> UnitRecord]
    <3>1. ASSUME NEW s \in Service PROVE [unit[s] EXCEPT !.enabled = @ /\ s \notin DisableUnits] \in UnitRecord
      BY LaunchedType DEF PrepInv, PrepType, PreparationTypeOK, UnitRecord, DisableCandidate
    <3> QED BY <3>1 DEF DisableCandidate
  <2>2. prep' \in Record /\ plan' \in Capture \cup {NoCapture}
    BY PreparationAssumption DEF PrepInv, PrepType, PreparationTypeOK, Record, UnitRecord, Capture,
            AbortPhase, NoPrep, Steps, PreparingSteps, DisableCandidate, At,
            Continue, record, installed, around, Aborting
  <2>3. /\ task' \in {"staging", "starting", "failed", "archived"}
        /\ registered' \in BOOLEAN /\ written' \in BOOLEAN /\ edits' \in 0..1
    BY DEF PrepInv, PrepType, PreparationTypeOK, DisableCandidate, Continue, record,
            installed, around
  <2>4. /\ retained' \in BOOLEAN /\ booted' \in BOOLEAN /\ inBudget' \in BOOLEAN
    BY ZenonT(30) DEF PrepInv, PrepType, PreparationTypeOK, DisableCandidate, Continue, record,
            installed, around
  <2>5. /\ pass' \in {"execute", "resume", "reconcile", "recheck"}
        /\ seen' \in Capture \cup {NoCapture} /\ step' \in Steps
    BY DEF PrepInv, PrepType, PreparationTypeOK, DisableCandidate, Continue, record,
            installed, around, Steps, PreparingSteps
  <2> QED BY <2>1, <2>2, <2>3, <2>4, <2>5 DEF PrepType, PreparationTypeOK, UnitRecord, Record
<1>2. RecordSound'
  BY PreparationAssumption DEF PrepInv, RecordSound, PrepType, PreparationTypeOK, Record, Capture,
            AbortPhase, NoPrep, Steps, PreparingSteps, DisableCandidate, At,
            Continue, record, installed, around, Valid, PermitsHandoff, Captured,
            Complete, Aborting, RetainedGuard
<1>3. CandidateOwned'
  <2>1. /\ prep.abort = "finalizing" /\ plan = NoCapture /\ step' = "audit" /\ step = "abort"
        /\ UNCHANGED <<prep, plan, task, registered>> /\ prep # NoPrep
    BY DEF DisableCandidate, Aborting, RetainedGuard, At, Continue, record,
            installed, around, NoPrep
  <2>2. \A s \in Service : Quiescent(s)
    BY <2>1 DEF DisableCandidate, Aborting, CandidateGuard, FinalizedInactive,
            CandidateStopped
  <2>3. ASSUME NEW s \in Service PROVE ~unit'[s].enabled /\ unit'[s].state = unit[s].state
    BY DEF PrepInv, PrepType, PreparationTypeOK, DisableCandidate, DisableUnits
  <2>4. CandidateDown' BY <2>2, <2>3 DEF CandidateDown, Quiescent
  <2> QED BY <2>1, <2>4 DEF PrepInv, CandidateOwned
<1>4. StopPinned'
  BY PreparationAssumption DEF PrepInv, RecordSound, StopPinned, Pinned, Quiescent, PrepType,
            PreparationTypeOK, Record, Capture, AbortPhase, NoPrep, Steps,
            PreparingSteps, DisableCandidate, At, Continue, record, installed,
            around, PermitsHandoff, Captured, Aborting, CandidateGuard, Absent
<1> QED BY <1>1, <1>2, <1>3, <1>4 DEF PrepInv

LEMMA AuditFailure_Keeps ==
  ASSUME PrepInv, AuditFailure
  PROVE  PrepInv'
<1>1. PrepType'
  BY PreparationAssumption DEF PrepInv, PrepType, PreparationTypeOK, Capture, AbortPhase, Steps,
            PreparingSteps, AuditFailure, At, Continue, OnlyRecord, installed,
            around, SavePreparation, Service
<1>2. RecordSound'
  BY PreparationAssumption DEF PrepInv, RecordSound, PrepType, PreparationTypeOK, Capture, AbortPhase,
            NoPrep, Steps, PreparingSteps, AuditFailure, At, Continue, OnlyRecord,
            record, installed, around, SavePreparation, Follows, Valid,
            PermitsHandoff, Captured, Complete
<1>3. CandidateOwned'
  BY PreparationAssumption DEF PrepInv, RecordSound, CandidateOwned, CandidateDown, Quiescent, PrepType,
            PreparationTypeOK, Capture, AbortPhase, NoPrep, Steps, PreparingSteps,
            AuditFailure, At, Continue, OnlyRecord, installed, around,
            SavePreparation, PermitsHandoff, Captured
<1>4. StopPinned'
  BY PreparationAssumption DEF PrepInv, RecordSound, StopPinned, Pinned, Quiescent, PrepType,
            PreparationTypeOK, Capture, AbortPhase, NoPrep, Steps, PreparingSteps,
            AuditFailure, At, Continue, OnlyRecord, installed, around,
            SavePreparation, PermitsHandoff, Captured, Absent
<1> QED BY <1>1, <1>2, <1>3, <1>4 DEF PrepInv

LEMMA FailTask_Keeps ==
  ASSUME PrepInv, FailTask
  PROVE  PrepInv'
<1>1. PrepType'
  BY PreparationAssumption DEF PrepInv, PrepType, PreparationTypeOK, Capture, AbortPhase, Steps,
            PreparingSteps, FailTask, At, Continue, record, around, Service,
            Aborting
<1>2. RecordSound'
  BY PreparationAssumption DEF PrepInv, RecordSound, PrepType, PreparationTypeOK, Capture, AbortPhase,
            NoPrep, Steps, PreparingSteps, FailTask, At, Continue, record, around,
            Valid, PermitsHandoff, Captured, Complete, Aborting, RetainedGuard
<1>3. CandidateOwned'
  BY PreparationAssumption DEF PrepInv, RecordSound, CandidateOwned, CandidateDown, Quiescent, PrepType,
            PreparationTypeOK, Capture, AbortPhase, NoPrep, Steps, PreparingSteps,
            FailTask, At, Continue, record, around, PermitsHandoff, Captured,
            Aborting, RetainedGuard, CandidateGuard, FinalizedInactive,
            CandidateStopped
<1>4. StopPinned'
  BY PreparationAssumption DEF PrepInv, RecordSound, StopPinned, Pinned, Quiescent, PrepType,
            PreparationTypeOK, Capture, AbortPhase, NoPrep, Steps, PreparingSteps,
            FailTask, At, Continue, record, around, PermitsHandoff, Captured,
            Aborting, CandidateGuard, Absent
<1> QED BY <1>1, <1>2, <1>3, <1>4 DEF PrepInv

LEMMA FinalizeRunner_Keeps ==
  ASSUME PrepInv, FinalizeRunner
  PROVE  PrepInv'
<1>1. PrepType'
  BY PreparationAssumption DEF PrepInv, PrepType, PreparationTypeOK, Capture, AbortPhase, Steps,
            PreparingSteps, FinalizeRunner, At, Continue, record, around, Service,
            Aborting
<1>2. RecordSound'
  BY PreparationAssumption DEF PrepInv, RecordSound, PrepType, PreparationTypeOK, Capture, AbortPhase,
            NoPrep, Steps, PreparingSteps, FinalizeRunner, At, Continue, record,
            around, Valid, PermitsHandoff, Captured, Complete, Aborting,
            RetainedGuard
<1>3. CandidateOwned'
  BY PreparationAssumption DEF PrepInv, RecordSound, CandidateOwned, CandidateDown, Quiescent, PrepType,
            PreparationTypeOK, Capture, AbortPhase, NoPrep, Steps, PreparingSteps,
            FinalizeRunner, At, Continue, record, around, PermitsHandoff,
            Captured, Aborting, RetainedGuard, CandidateGuard, FinalizedInactive,
            CandidateStopped
<1>4. StopPinned'
  BY PreparationAssumption DEF PrepInv, RecordSound, StopPinned, Pinned, Quiescent, PrepType,
            PreparationTypeOK, Capture, AbortPhase, NoPrep, Steps, PreparingSteps,
            FinalizeRunner, At, Continue, record, around, PermitsHandoff,
            Captured, Aborting, CandidateGuard, Absent
<1> QED BY <1>1, <1>2, <1>3, <1>4 DEF PrepInv

LEMMA ArchiveTask_Keeps ==
  ASSUME PrepInv, ArchiveTask
  PROVE  PrepInv'
<1>1. PrepType'
  BY PreparationAssumption DEF PrepInv, PrepType, PreparationTypeOK, Capture, AbortPhase, Steps,
            PreparingSteps, ArchiveTask, At, Continue, record, around, Service,
            Aborting
<1>2. RecordSound'
  BY PreparationAssumption DEF PrepInv, RecordSound, PrepType, PreparationTypeOK, Capture, AbortPhase,
            NoPrep, Steps, PreparingSteps, ArchiveTask, At, Continue, record,
            around, Valid, PermitsHandoff, Captured, Complete, Aborting,
            RetainedGuard
<1>3. CandidateOwned'
  BY PreparationAssumption DEF PrepInv, RecordSound, CandidateOwned, CandidateDown, Quiescent, PrepType,
            PreparationTypeOK, Capture, AbortPhase, NoPrep, Steps, PreparingSteps,
            ArchiveTask, At, Continue, record, around, PermitsHandoff, Captured,
            Aborting, RetainedGuard, CandidateGuard, FinalizedInactive,
            CandidateStopped
<1>4. StopPinned'
  BY PreparationAssumption DEF PrepInv, RecordSound, StopPinned, Pinned, Quiescent, PrepType,
            PreparationTypeOK, Capture, AbortPhase, NoPrep, Steps, PreparingSteps,
            ArchiveTask, At, Continue, record, around, PermitsHandoff, Captured,
            Aborting, CandidateGuard, Absent
<1> QED BY <1>1, <1>2, <1>3, <1>4 DEF PrepInv

LEMMA ArchiveCancelled_Keeps ==
  ASSUME PrepInv, ArchiveCancelled
  PROVE  PrepInv'
<1>1. PrepType'
  BY PreparationAssumption DEF PrepInv, PrepType, PreparationTypeOK, Capture, AbortPhase, NoPrep, Steps,
            PreparingSteps, ArchiveCancelled, At, Continue, OnlyRecord, installed,
            around, Service, Aborting
<1>2. RecordSound'
  BY PreparationAssumption DEF PrepInv, RecordSound, PrepType, PreparationTypeOK, Capture, AbortPhase,
            NoPrep, Steps, PreparingSteps, ArchiveCancelled, At, Continue,
            OnlyRecord, record, installed, around, Valid, PermitsHandoff,
            Captured, Complete, Aborting, RetainedGuard
<1>3. CandidateOwned'
  BY PreparationAssumption DEF PrepInv, RecordSound, CandidateOwned, CandidateDown, Quiescent, PrepType,
            PreparationTypeOK, Capture, AbortPhase, NoPrep, Steps, PreparingSteps,
            ArchiveCancelled, At, Continue, OnlyRecord, installed, around,
            PermitsHandoff, Captured, Aborting, RetainedGuard, CandidateGuard,
            FinalizedInactive, CandidateStopped
<1>4. StopPinned'
  BY PreparationAssumption DEF PrepInv, RecordSound, StopPinned, Pinned, Quiescent, PrepType,
            PreparationTypeOK, Capture, AbortPhase, NoPrep, Steps, PreparingSteps,
            ArchiveCancelled, At, Continue, OnlyRecord, installed, around,
            PermitsHandoff, Captured, Aborting, CandidateGuard, Absent
<1> QED BY <1>1, <1>2, <1>3, <1>4 DEF PrepInv

LEMMA PreparationFails_Keeps ==
  ASSUME PrepInv, PreparationFails
  PROVE  PrepInv'
<1>1. PrepType'
  BY PreparationAssumption DEF PrepInv, PrepType, PreparationTypeOK, Capture, AbortPhase, Steps,
            PreparingSteps, PreparationFails, record, installed, around, Service
<1>2. RecordSound'
  BY PreparationAssumption DEF PrepInv, RecordSound, PrepType, PreparationTypeOK, Capture, AbortPhase,
            NoPrep, Steps, PreparingSteps, PreparationFails, record, installed,
            around, Valid, PermitsHandoff, Captured, Complete
<1>3. CandidateOwned'
  BY PreparationAssumption DEF PrepInv, RecordSound, CandidateOwned, CandidateDown, Quiescent, PrepType,
            PreparationTypeOK, Capture, AbortPhase, NoPrep, Steps, PreparingSteps,
            PreparationFails, record, installed, around, PermitsHandoff, Captured
<1>4. StopPinned'
  BY PreparationAssumption DEF PrepInv, RecordSound, StopPinned, Pinned, PrepType, PreparationTypeOK,
            Capture, AbortPhase, NoPrep, Steps, PreparingSteps, PreparationFails,
            record, installed, around, PermitsHandoff, Captured
<1> QED BY <1>1, <1>2, <1>3, <1>4 DEF PrepInv

LEMMA PreparationDies_Keeps ==
  ASSUME PrepInv, PreparationDies
  PROVE  PrepInv'
<1>1. PrepType'
  BY PreparationAssumption DEF PrepInv, PrepType, PreparationTypeOK, Capture, AbortPhase, Steps,
            PreparingSteps, PreparationDies, record, installed, around, Service
<1>2. RecordSound'
  BY PreparationAssumption DEF PrepInv, RecordSound, PrepType, PreparationTypeOK, Capture, AbortPhase,
            NoPrep, Steps, PreparingSteps, PreparationDies, record, installed,
            around, Valid, PermitsHandoff, Captured, Complete
<1>3. CandidateOwned'
  BY PreparationAssumption DEF PrepInv, RecordSound, CandidateOwned, CandidateDown, Quiescent, PrepType,
            PreparationTypeOK, Capture, AbortPhase, NoPrep, Steps, PreparingSteps,
            PreparationDies, record, installed, around, PermitsHandoff, Captured
<1>4. StopPinned'
  BY PreparationAssumption DEF PrepInv, RecordSound, StopPinned, Pinned, PrepType, PreparationTypeOK,
            Capture, AbortPhase, NoPrep, Steps, PreparingSteps, PreparationDies,
            record, installed, around, PermitsHandoff, Captured
<1> QED BY <1>1, <1>2, <1>3, <1>4 DEF PrepInv

LEMMA PreviousChanges_Keeps ==
  ASSUME PrepInv, PreviousChanges
  PROVE  PrepInv'
<1>1. PrepType'
  <2>1. unit' \in [Service -> UnitRecord]
    BY DEF PrepInv, PrepType, PreparationTypeOK, UnitRecord, PreviousChanges,
            record, installed, ExecutorIdle
  <2>2. prep' \in Record /\ plan' \in Capture \cup {NoCapture}
    BY PreparationAssumption DEF PrepInv, PrepType, PreparationTypeOK, Record, UnitRecord, Capture,
            AbortPhase, NoPrep, Steps, PreparingSteps, PreviousChanges, record,
            installed, ExecutorIdle
  <2>3. /\ task' \in {"staging", "starting", "failed", "archived"}
        /\ registered' \in BOOLEAN /\ written' \in BOOLEAN /\ edits' \in 0..1
    BY DEF PrepInv, PrepType, PreparationTypeOK, PreviousChanges, record, installed,
            ExecutorIdle
  <2>4. /\ retained' \in BOOLEAN /\ booted' \in BOOLEAN /\ inBudget' \in BOOLEAN
    BY ZenonT(30) DEF PrepInv, PrepType, PreparationTypeOK, PreviousChanges, record, installed,
            ExecutorIdle
  <2>5. /\ pass' \in {"execute", "resume", "reconcile", "recheck"}
        /\ seen' \in Capture \cup {NoCapture} /\ step' \in Steps
    BY DEF PrepInv, PrepType, PreparationTypeOK, PreviousChanges, record, installed,
            ExecutorIdle, Steps, PreparingSteps
  <2> QED BY <2>1, <2>2, <2>3, <2>4, <2>5 DEF PrepType, PreparationTypeOK, UnitRecord, Record
<1>2. RecordSound'
  BY PreparationAssumption DEF PrepInv, RecordSound, PrepType, PreparationTypeOK, Record, Capture,
            AbortPhase, NoPrep, Steps, PreparingSteps, PreviousChanges, record,
            installed, ExecutorIdle, Valid, PermitsHandoff, Captured, Complete
<1>3. CandidateOwned'
  BY PreparationAssumption DEF PrepInv, RecordSound, CandidateOwned, CandidateDown, Quiescent, PrepType,
            PreparationTypeOK, Record, Capture, AbortPhase, NoPrep, Steps,
            PreparingSteps, PreviousChanges, record, installed, ExecutorIdle,
            PermitsHandoff, Captured
<1>4. StopPinned'
  BY PreparationAssumption DEF PrepInv, RecordSound, StopPinned, Pinned, PrepType, PreparationTypeOK,
            Record, Capture, AbortPhase, NoPrep, Steps, PreparingSteps,
            PreviousChanges, record, installed, ExecutorIdle, PermitsHandoff,
            Captured
<1> QED BY <1>1, <1>2, <1>3, <1>4 DEF PrepInv

LEMMA EnvironmentEdited_Keeps ==
  ASSUME PrepInv, EnvironmentEdited
  PROVE  PrepInv'
<1>1. PrepType'
  BY PreparationAssumption DEF PrepInv, PrepType, PreparationTypeOK, Capture, AbortPhase, Steps,
            PreparingSteps, EnvironmentEdited, record, installed, ExecutorIdle,
            Service
<1>2. RecordSound'
  BY PreparationAssumption DEF PrepInv, RecordSound, PrepType, PreparationTypeOK, Capture, AbortPhase,
            NoPrep, Steps, PreparingSteps, EnvironmentEdited, record, installed,
            ExecutorIdle, Valid, PermitsHandoff, Captured, Complete
<1>3. CandidateOwned'
  BY PreparationAssumption DEF PrepInv, RecordSound, CandidateOwned, CandidateDown, Quiescent, PrepType,
            PreparationTypeOK, Capture, AbortPhase, NoPrep, Steps, PreparingSteps,
            EnvironmentEdited, record, installed, ExecutorIdle, PermitsHandoff,
            Captured
<1>4. StopPinned'
  BY PreparationAssumption DEF PrepInv, RecordSound, StopPinned, Pinned, PrepType, PreparationTypeOK,
            Capture, AbortPhase, NoPrep, Steps, PreparingSteps, EnvironmentEdited,
            record, installed, ExecutorIdle, PermitsHandoff, Captured
<1> QED BY <1>1, <1>2, <1>3, <1>4 DEF PrepInv

LEMMA BudgetElapses_Keeps ==
  ASSUME PrepInv, BudgetElapses
  PROVE  PrepInv'
<1>1. PrepType'
  <2>1. unit' \in [Service -> UnitRecord]
    BY DEF PrepInv, PrepType, PreparationTypeOK, UnitRecord, BudgetElapses, record,
            installed, around
  <2>2. prep' \in Record /\ plan' \in Capture \cup {NoCapture}
    BY PreparationAssumption DEF PrepInv, PrepType, PreparationTypeOK, Record, UnitRecord, Capture,
            AbortPhase, Steps, PreparingSteps, BudgetElapses, record, installed,
            around
  <2>3. /\ task' \in {"staging", "starting", "failed", "archived"}
        /\ registered' \in BOOLEAN /\ written' \in BOOLEAN /\ edits' \in 0..1
    BY DEF PrepInv, PrepType, PreparationTypeOK, BudgetElapses, record, installed,
            around
  <2>4. /\ retained' \in BOOLEAN /\ booted' \in BOOLEAN /\ inBudget' \in BOOLEAN
    BY ZenonT(30) DEF PrepInv, PrepType, PreparationTypeOK, BudgetElapses, record, installed,
            around
  <2>5. /\ pass' \in {"execute", "resume", "reconcile", "recheck"}
        /\ seen' \in Capture \cup {NoCapture} /\ step' \in Steps
    BY DEF PrepInv, PrepType, PreparationTypeOK, BudgetElapses, record, installed,
            around, Steps, PreparingSteps
  <2> QED BY <2>1, <2>2, <2>3, <2>4, <2>5 DEF PrepType, PreparationTypeOK, UnitRecord, Record
<1>2. RecordSound'
  BY PreparationAssumption DEF PrepInv, RecordSound, PrepType, PreparationTypeOK, Record, Capture,
            AbortPhase, NoPrep, Steps, PreparingSteps, BudgetElapses, record,
            installed, around, Valid, PermitsHandoff, Captured, Complete
<1>3. CandidateOwned'
  BY PreparationAssumption DEF PrepInv, RecordSound, CandidateOwned, CandidateDown, Quiescent, PrepType,
            PreparationTypeOK, Record, Capture, AbortPhase, NoPrep, Steps,
            PreparingSteps, BudgetElapses, record, installed, around,
            PermitsHandoff, Captured
<1>4. StopPinned'
  BY PreparationAssumption DEF PrepInv, RecordSound, StopPinned, Pinned, PrepType, PreparationTypeOK,
            Record, Capture, AbortPhase, NoPrep, Steps, PreparingSteps,
            BudgetElapses, record, installed, around, PermitsHandoff, Captured
<1> QED BY <1>1, <1>2, <1>3, <1>4 DEF PrepInv

LEMMA MachineReboots_Keeps ==
  ASSUME PrepInv, MachineReboots
  PROVE  PrepInv'
<1>1. PrepType'
  <2>1. unit' \in [Service -> UnitRecord]
    <3>1. ASSUME NEW s \in Service PROVE (IF unit[s].enabled THEN Launched(unit[s]) ELSE [unit[s] EXCEPT !.state = "inactive"]) \in UnitRecord
      BY LaunchedType DEF PrepInv, PrepType, PreparationTypeOK, UnitRecord, MachineReboots
    <3> QED BY <3>1 DEF MachineReboots
  <2>2. prep' \in Record /\ plan' \in Capture \cup {NoCapture}
    BY PreparationAssumption DEF PrepInv, PrepType, PreparationTypeOK, Record, UnitRecord, Capture,
            AbortPhase, Steps, PreparingSteps, MachineReboots, record, installed
  <2>3. /\ task' \in {"staging", "starting", "failed", "archived"}
        /\ registered' \in BOOLEAN /\ written' \in BOOLEAN /\ edits' \in 0..1
    BY DEF PrepInv, PrepType, PreparationTypeOK, MachineReboots, record, installed
  <2>4. /\ retained' \in BOOLEAN /\ booted' \in BOOLEAN /\ inBudget' \in BOOLEAN
    BY ZenonT(30) DEF PrepInv, PrepType, PreparationTypeOK, MachineReboots, record, installed
  <2>5. /\ pass' \in {"execute", "resume", "reconcile", "recheck"}
        /\ seen' \in Capture \cup {NoCapture} /\ step' \in Steps
    BY DEF PrepInv, PrepType, PreparationTypeOK, MachineReboots, record, installed,
            Steps, PreparingSteps
  <2> QED BY <2>1, <2>2, <2>3, <2>4, <2>5 DEF PrepType, PreparationTypeOK, UnitRecord, Record
<1>2. RecordSound'
  BY PreparationAssumption DEF PrepInv, RecordSound, PrepType, PreparationTypeOK, Record, Capture,
            AbortPhase, NoPrep, Steps, PreparingSteps, MachineReboots, record,
            installed, Valid, PermitsHandoff, Captured, Complete
<1>3. CandidateOwned'
  <2>1. step' = "off" /\ UNCHANGED <<prep, plan, task, registered>>
    BY DEF MachineReboots, record, installed
  <2>2. CandidateDown => CandidateDown'
    <3>1. ASSUME NEW s \in Service, ~unit[s].enabled
          PROVE  ~unit'[s].enabled /\ unit'[s].state = "inactive"
      BY <3>1 DEF PrepInv, PrepType, PreparationTypeOK, MachineReboots
    <3> QED BY <3>1 DEF CandidateDown, Quiescent
  <2> QED BY <2>1, <2>2 DEF PrepInv, CandidateOwned
<1>4. StopPinned'
  BY PreparationAssumption DEF PrepInv, RecordSound, StopPinned, Pinned, PrepType, PreparationTypeOK,
            Record, Capture, AbortPhase, NoPrep, Steps, PreparingSteps,
            MachineReboots, record, installed, PermitsHandoff, Captured, Launched
<1> QED BY <1>1, <1>2, <1>3, <1>4 DEF PrepInv

LEMMA RetireService_Keeps ==
  ASSUME PrepInv, NEW s \in Service, RetireService(s)
  PROVE  PrepInv'
<1>1. PrepType'
  BY PreparationAssumption DEF PrepInv, PrepType, PreparationTypeOK, Capture, AbortPhase, Steps,
            PreparingSteps, RetireService, At, Continue, record, installed,
            around, Service, Aborting
<1>2. RecordSound'
  BY PreparationAssumption DEF PrepInv, RecordSound, PrepType, PreparationTypeOK, Capture, AbortPhase,
            NoPrep, Steps, PreparingSteps, RetireService, At, Continue, record,
            installed, around, Valid, PermitsHandoff, Captured, Complete,
            Aborting, RetainedGuard
<1>3. CandidateOwned'
  BY PreparationAssumption DEF PrepInv, RecordSound, CandidateOwned, CandidateDown, Quiescent, PrepType,
            PreparationTypeOK, Capture, AbortPhase, NoPrep, Steps, PreparingSteps,
            RetireService, At, Continue, record, installed, around,
            PermitsHandoff, Captured, Aborting, RetainedGuard, CandidateGuard,
            FinalizedInactive, CandidateStopped
<1>4. StopPinned'
  BY PreparationAssumption DEF PrepInv, RecordSound, StopPinned, Pinned, Quiescent, PrepType,
            PreparationTypeOK, Capture, AbortPhase, NoPrep, Steps, PreparingSteps,
            RetireService, At, Continue, record, installed, around,
            PermitsHandoff, Captured, Aborting, CandidateGuard, Absent, Exited
<1> QED BY <1>1, <1>2, <1>3, <1>4 DEF PrepInv

LEMMA ServiceUp_Keeps ==
  ASSUME PrepInv, NEW s \in Service, ServiceUp(s)
  PROVE  PrepInv'
<1>1. PrepType'
  BY PreparationAssumption DEF PrepInv, PrepType, PreparationTypeOK, Capture, AbortPhase, Steps,
            PreparingSteps, ServiceUp, record, installed, around, ExecutorIdle,
            Service
<1>2. RecordSound'
  BY PreparationAssumption DEF PrepInv, RecordSound, PrepType, PreparationTypeOK, Capture, AbortPhase,
            NoPrep, Steps, PreparingSteps, ServiceUp, record, installed, around,
            ExecutorIdle, Valid, PermitsHandoff, Captured, Complete
<1>3. CandidateOwned'
  BY PreparationAssumption DEF PrepInv, RecordSound, CandidateOwned, CandidateDown, Quiescent, PrepType,
            PreparationTypeOK, Capture, AbortPhase, NoPrep, Steps, PreparingSteps,
            ServiceUp, record, installed, around, ExecutorIdle, PermitsHandoff,
            Captured
<1>4. StopPinned'
  BY PreparationAssumption DEF PrepInv, RecordSound, StopPinned, Pinned, PrepType, PreparationTypeOK,
            Capture, AbortPhase, NoPrep, Steps, PreparingSteps, ServiceUp, record,
            installed, around, ExecutorIdle, PermitsHandoff, Captured
<1> QED BY <1>1, <1>2, <1>3, <1>4 DEF PrepInv

LEMMA ServiceExits_Keeps ==
  ASSUME PrepInv, NEW s \in Service, ServiceExits(s)
  PROVE  PrepInv'
<1>1. PrepType'
  BY PreparationAssumption DEF PrepInv, PrepType, PreparationTypeOK, Capture, AbortPhase, Steps,
            PreparingSteps, ServiceExits, record, installed, around, ExecutorIdle,
            Service
<1>2. RecordSound'
  BY PreparationAssumption DEF PrepInv, RecordSound, PrepType, PreparationTypeOK, Capture, AbortPhase,
            NoPrep, Steps, PreparingSteps, ServiceExits, record, installed,
            around, ExecutorIdle, Valid, PermitsHandoff, Captured, Complete
<1>3. CandidateOwned'
  BY PreparationAssumption DEF PrepInv, RecordSound, CandidateOwned, CandidateDown, Quiescent, PrepType,
            PreparationTypeOK, Capture, AbortPhase, NoPrep, Steps, PreparingSteps,
            ServiceExits, record, installed, around, ExecutorIdle, PermitsHandoff,
            Captured
<1>4. StopPinned'
  BY PreparationAssumption DEF PrepInv, RecordSound, StopPinned, Pinned, PrepType, PreparationTypeOK,
            Capture, AbortPhase, NoPrep, Steps, PreparingSteps, ServiceExits,
            record, installed, around, ExecutorIdle, PermitsHandoff, Captured
<1> QED BY <1>1, <1>2, <1>3, <1>4 DEF PrepInv

LEMMA ServiceCrashes_Keeps ==
  ASSUME PrepInv, NEW s \in Service, ServiceCrashes(s)
  PROVE  PrepInv'
<1>1. PrepType'
  <2>1. unit' \in [Service -> UnitRecord]
    <3>1. [unit[s] EXCEPT !.state = "failed"] \in UnitRecord
      BY DEF PrepInv, PrepType, PreparationTypeOK, UnitRecord
    <3>2. unit[s].invocation < MaxInvocation => Launched(unit[s]) \in UnitRecord
      BY LaunchedType DEF PrepInv, PrepType, PreparationTypeOK, UnitRecord
    <3>3. unit \in [Service -> UnitRecord] BY DEF PrepInv, PrepType, PreparationTypeOK, UnitRecord
    <3> QED BY <3>1, <3>2, <3>3 DEF ServiceCrashes
  <2>2. prep' \in Record /\ plan' \in Capture \cup {NoCapture}
    BY PreparationAssumption DEF PrepInv, PrepType, PreparationTypeOK, Record, UnitRecord, Capture,
            AbortPhase, Steps, PreparingSteps, ServiceCrashes, record, installed,
            around, ExecutorIdle
  <2>3. /\ task' \in {"staging", "starting", "failed", "archived"}
        /\ registered' \in BOOLEAN /\ written' \in BOOLEAN /\ edits' \in 0..1
    BY DEF PrepInv, PrepType, PreparationTypeOK, ServiceCrashes, record, installed,
            around, ExecutorIdle
  <2>4. /\ retained' \in BOOLEAN /\ booted' \in BOOLEAN /\ inBudget' \in BOOLEAN
    BY ZenonT(30) DEF PrepInv, PrepType, PreparationTypeOK, ServiceCrashes, record, installed,
            around, ExecutorIdle
  <2>5. /\ pass' \in {"execute", "resume", "reconcile", "recheck"}
        /\ seen' \in Capture \cup {NoCapture} /\ step' \in Steps
    BY DEF PrepInv, PrepType, PreparationTypeOK, ServiceCrashes, record, installed,
            around, ExecutorIdle, Steps, PreparingSteps
  <2> QED BY <2>1, <2>2, <2>3, <2>4, <2>5 DEF PrepType, PreparationTypeOK, UnitRecord, Record
<1>2. RecordSound'
  BY PreparationAssumption DEF PrepInv, RecordSound, PrepType, PreparationTypeOK, Record, Capture,
            AbortPhase, NoPrep, Steps, PreparingSteps, ServiceCrashes, record,
            installed, around, ExecutorIdle, Valid, PermitsHandoff, Captured,
            Complete
<1>3. CandidateOwned'
  BY PreparationAssumption DEF PrepInv, RecordSound, CandidateOwned, CandidateDown, Quiescent, PrepType,
            PreparationTypeOK, Record, Capture, AbortPhase, NoPrep, Steps,
            PreparingSteps, ServiceCrashes, record, installed, around,
            ExecutorIdle, PermitsHandoff, Captured, Launched
<1>4. StopPinned'
  <2>1. unit'[s].state # "stopping" /\ \A t \in Service \ {s} : unit'[t] = unit[t]
    BY LaunchedType DEF PrepInv, PrepType, PreparationTypeOK, UnitRecord, ServiceCrashes
  <2> QED BY <2>1 DEF PrepInv, StopPinned, Pinned, ServiceCrashes, record, installed, around,
            ExecutorIdle
<1> QED BY <1>1, <1>2, <1>3, <1>4 DEF PrepInv

\* The steps together.
LEMMA PrepInitially == PreparationInit => PrepInv
<1> SUFFICES ASSUME PreparationInit PROVE PrepInv OBVIOUS
<1>1. NoPrep \in Record
  <2>1. 0 \in 0..2 OBVIOUS
  <2> QED BY <2>1, Zenon DEF NoPrep, Record
<1>2. unit \in [Service -> UnitRecord]
  BY PreparationAssumption DEF PreparationInit, UnitRecord
<1>3. PrepType
  <2>1. /\ registered \in BOOLEAN /\ written \in BOOLEAN /\ retained \in BOOLEAN
        /\ booted \in BOOLEAN /\ inBudget \in BOOLEAN
    BY Zenon DEF PreparationInit
  <2>2. /\ plan \in Capture \cup {NoCapture} /\ seen \in Capture \cup {NoCapture}
        /\ task \in {"staging", "starting", "failed", "archived"} /\ edits \in 0..1
        /\ pass \in {"execute", "resume", "reconcile", "recheck"} /\ step \in Steps
    BY DEF PreparationInit, Steps
  <2>3. prep \in Record BY <1>1 DEF PreparationInit
  <2> QED BY <1>2, <2>1, <2>2, <2>3 DEF PrepType, PreparationTypeOK, Record, UnitRecord
<1>4. CandidateDown
  BY DEF PreparationInit, CandidateDown, Quiescent
<1> QED BY <1>3, <1>4 DEF PreparationInit, PrepInv, RecordSound, CandidateOwned, StopPinned,
            CandidateDown, NoPrep, PreparingSteps

LEMMA PrepStep == PrepInv /\ [PreparationNext]_prepVars => PrepInv'
<1> SUFFICES ASSUME PrepInv, [PreparationNext]_prepVars PROVE PrepInv' OBVIOUS
<1>1. CASE UNCHANGED prepVars
  BY <1>1 DEF prepVars, PrepInv, PrepType, PreparationTypeOK, RecordSound,
            CandidateOwned, StopPinned, CandidateDown, Quiescent, Pinned,
            PermitsHandoff, Captured
<1>2. CASE PreparationNext
  BY <1>2, Execute_Keeps, RunNext_Keeps, PrepareIfSupported_Keeps, Begin_Keeps, Stage_Keeps, ProvisionIdentity_Keeps, WriteRunnerMaterial_Keeps, WriteControlMaterial_Keeps, Provisioned_Keeps, Starting_Keeps, Drive_Keeps, DispatchEnable_Keeps, DispatchStart_Keeps, ObserveActivation_Keeps, ConfirmActivation_Keeps, ObservePlan_Keeps, Handoff_Keeps, ArchivePreparation_Keeps, ClaimObserves_Keeps, ClaimSaves_Keeps, AbortAdvances_Keeps, CandidateRetired_Keeps, DisableCandidate_Keeps, AuditFailure_Keeps, FailTask_Keeps, FinalizeRunner_Keeps, ArchiveTask_Keeps, ArchiveCancelled_Keeps, PreparationFails_Keeps, PreparationDies_Keeps, PreviousChanges_Keeps, EnvironmentEdited_Keeps, BudgetElapses_Keeps, MachineReboots_Keeps, RetireService_Keeps, ServiceUp_Keeps, ServiceExits_Keeps, ServiceCrashes_Keeps
     DEF PreparationNext
<1> QED BY <1>1, <1>2

LEMMA PrepInvariant == PreparationSpec => []PrepInv
BY PrepInitially, PrepStep, PTL DEF PreparationSpec

\* Nothing of a candidate is left without a record that owns it, a transition
\* takes over exactly what was captured, and a cancellation stops only what it
\* captured (slot_preparation/online, preparation_abort.rs), for any number of
\* restarts of the services.
THEOREM CandidateNeverOrphaned == PreparationSpec => []NoOrphanCandidate
<1>1. PrepInv => NoOrphanCandidate
  BY DEF PrepInv, PrepType, PreparationTypeOK, RecordSound, CandidateOwned,
            StopPinned, NoOrphanCandidate, CandidateDown, Quiescent, NoPrep
<1> QED BY <1>1, PrepInvariant, PTL

(***************************************************************************)
(* The maintenance executor.  Whatever is left of its plan, a start comes  *)
(* after a stop of all controls that is still ahead, unless all controls   *)
(* are down already, and an enable comes after a disable of the other slot *)
(* that is still ahead, unless only the slot of the plan is enabled.  A    *)
(* failure replaces the plan by one for which this holds on any machine.   *)
(***************************************************************************)
\* Every y of the plan p comes after an x; y occurs at most once.
Preceded(p, x, y) == \A i \in 1..Len(p) : p[i] = y => \E j \in 1..(i - 1) : p[j] = x
Sole(p, y) == \A i, j \in 1..Len(p) : p[i] = y /\ p[j] = y => i = j

\* The steps that neither start a control nor enable one.
QuietStep == (Statuses \ {"RestoringPrevious"}) \cup
  {"stage", "staged", "claimed", "quiesce", "link", "assets", "disable", "prepare", "healthy",
   "runnerUnits", "runnerReady", "upstreams", "current", "selected", "cli", "audit", "commit",
   "persist", "finalize", "archive", "refuseActive", "unlink", "remove"}
StepName == QuietStep \cup {"start", "enable", "RestoringPrevious"}

\* A plan starts a control only after it has stopped all of them, enables a
\* slot only after it has disabled the other one, and has steps left after it
\* announced a restoration.
Restoration(p) == \A i \in 1..Len(p) : p[i] = "RestoringPrevious" => i < Len(p)
Careful(p) ==
  /\ Preceded(p, "quiesce", "start") /\ Sole(p, "start")
  /\ Preceded(p, "disable", "enable")
  /\ Restoration(p)

\* The fields of the records; only the slots need a type.
ActiveShape(a) == a = [slot |-> a.slot, version |-> a.version, runner |-> a.runner] /\ a.slot \in Slot
HostShape(h) ==
  /\ h = [control |-> h.control, boot |-> h.boot, runners |-> h.runners, runnerBoot |-> h.runnerBoot,
          link |-> h.link, current |-> h.current, selected |-> h.selected, cli |-> h.cli,
          assets |-> h.assets, upstream |-> h.upstream, active |-> h.active,
          identity |-> h.identity, releases |-> h.releases]
  /\ h.control = [s \in Slot |-> h.control[s]]
  /\ ActiveShape(h.active)
Mode == {"off", "stage", "upgrade", "delete", "restore", "recover", "settle", "complete", "exit"}
ExecShape(e) ==
  /\ e = [mode |-> e.mode, plan |-> e.plan, job |-> e.job, goal |-> e.goal, prior |-> e.prior,
          assets |-> e.assets, upstream |-> e.upstream]
  /\ e.mode \in Mode /\ ActiveShape(e.goal) /\ ActiveShape(e.prior)

\* At most one control runs, and at most one starts at the next boot.
OneUp(h) == \E s \in Slot : h.control[Other(s)] = NoVersion
OneBoots(h) == \E s \in Slot : h.boot \subseteq {s}

\* What the rest of the plan e relies on in the machine h.
PlanSafe(h, e) ==
  e.mode # "off" =>
    /\ e.plan \in Seq(StepName) /\ e.plan # << >>
    /\ Down(h) \/ Preceded(e.plan, "quiesce", "start")
    /\ Sole(e.plan, "start")
    /\ h.boot \subseteq {e.goal.slot} \/ Preceded(e.plan, "disable", "enable")
    /\ Restoration(e.plan)

\* The inductive invariant of the executor.
ControlInv ==
  /\ HostShape(host) /\ ExecShape(exec)
  /\ OneUp(host) /\ OneBoots(host) /\ PlanSafe(host, exec)

\* What is left of a plan after its first step.
LEMMA PlanTail ==
   ASSUME NEW S, NEW p \in Seq(S), p # << >>, NEW x, NEW y
   PROVE /\ Tail(p) \in Seq(S) /\ Head(p) \in S
         /\ Preceded(p, x, y) => Head(p) # y
         /\ Preceded(p, x, y) /\ Head(p) # x => Preceded(Tail(p), x, y)
         /\ Sole(p, y) => Sole(Tail(p), y)
         /\ Sole(p, y) /\ Head(p) = y => Preceded(Tail(p), x, y)
         /\ Restoration(p) => Restoration(Tail(p))
         /\ Restoration(p) /\ Head(p) = "RestoringPrevious" => Tail(p) # << >>
<1>1. /\ Tail(p) \in Seq(S) /\ Len(Tail(p)) = Len(p) - 1 /\ Head(p) = p[1] /\ Head(p) \in S
      /\ \A i \in 1..Len(p) - 1 : Tail(p)[i] = p[i + 1]
  OBVIOUS
<1>2. Preceded(p, x, y) => Head(p) # y BY <1>1 DEF Preceded
<1>3. Preceded(p, x, y) /\ Head(p) # x => Preceded(Tail(p), x, y)
  <2> SUFFICES ASSUME Preceded(p, x, y), Head(p) # x, NEW i \in 1..Len(Tail(p)), Tail(p)[i] = y
               PROVE  \E j \in 1..(i - 1) : Tail(p)[j] = x
    BY DEF Preceded
  <2>1. PICK j \in 1..i : p[j] = x BY <1>1 DEF Preceded
  <2>2. j - 1 \in 1..(i - 1) /\ Tail(p)[j - 1] = x BY <1>1, <2>1
  <2> QED BY <2>2
<1>4. Sole(p, y) => Sole(Tail(p), y)
  <2> SUFFICES ASSUME Sole(p, y), NEW i \in 1..Len(Tail(p)), NEW j \in 1..Len(Tail(p)),
                      Tail(p)[i] = y, Tail(p)[j] = y
               PROVE  i = j
    BY DEF Sole
  <2> QED BY <1>1 DEF Sole
<1>5. Sole(p, y) /\ Head(p) = y => Preceded(Tail(p), x, y) BY <1>1 DEF Sole, Preceded
<1>6. Restoration(p) => Restoration(Tail(p))
  <2> SUFFICES ASSUME Restoration(p), NEW i \in 1..Len(Tail(p)), Tail(p)[i] = "RestoringPrevious"
               PROVE  i < Len(Tail(p))
    BY DEF Restoration
  <2> QED BY <1>1 DEF Restoration
<1>7. Restoration(p) /\ Head(p) = "RestoringPrevious" => Tail(p) # << >>
  <2> SUFFICES ASSUME Restoration(p), p[1] = "RestoringPrevious" PROVE Tail(p) # << >>
    BY <1>1
  <2>1. 1 \in 1..Len(p) BY EmptySeq
  <2>2. Len(p) > 1 BY <2>1 DEF Restoration
  <2>3. Len(Tail(p)) # 0 BY <1>1, <2>2
  <2>4. Len(<< >>) = 0 BY EmptySeq
  <2> QED BY <2>3, <2>4, Zenon
<1> QED BY <1>1, <1>2, <1>3, <1>4, <1>5, <1>6, <1>7

\* The scripts are careful.
LEMMA UpgradeCareful ==
  UpgradeScript \in Seq(StepName) /\ UpgradeScript # << >> /\ Careful(UpgradeScript)
<1>1. UpgradeScript \in Seq(StepName) /\ Len(UpgradeScript) = 20
  BY DEF UpgradeScript, StepName, QuietStep, Statuses, Early, Terminal
<1>2. UpgradeScript[2] = "quiesce" /\ UpgradeScript[5] = "disable" BY DEF UpgradeScript
<1>3. \A i \in 1..20 : UpgradeScript[i] = "start" => i = 8 BY DEF UpgradeScript
<1>4. \A i \in 1..20 : UpgradeScript[i] = "enable" => i = 13 BY DEF UpgradeScript
<1>5. \A i \in 1..20 : UpgradeScript[i] # "RestoringPrevious" BY DEF UpgradeScript
<1>6. Preceded(UpgradeScript, "quiesce", "start")
  <2> SUFFICES ASSUME NEW i \in 1..20, UpgradeScript[i] = "start"
               PROVE  \E j \in 1..(i - 1) : UpgradeScript[j] = "quiesce"
    BY <1>1 DEF Preceded
  <2>1. 2 \in 1..(i - 1) BY <1>3
  <2> QED BY <1>2, <2>1
<1>7. Preceded(UpgradeScript, "disable", "enable")
  <2> SUFFICES ASSUME NEW i \in 1..20, UpgradeScript[i] = "enable"
               PROVE  \E j \in 1..(i - 1) : UpgradeScript[j] = "disable"
    BY <1>1 DEF Preceded
  <2>1. 5 \in 1..(i - 1) BY <1>4
  <2> QED BY <1>2, <2>1
<1>8. UpgradeScript # << >> BY DEF UpgradeScript
<1>9. Sole(UpgradeScript, "start") BY <1>1, <1>3 DEF Sole
<1> QED BY <1>1, <1>5, <1>6, <1>7, <1>8, <1>9 DEF Careful, Restoration

LEMMA RestoreCareful ==
  RestoreScript \in Seq(StepName) /\ RestoreScript # << >> /\ Careful(RestoreScript)
<1>1. RestoreScript \in Seq(StepName) /\ Len(RestoreScript) = 16
  BY DEF RestoreScript, StepName, QuietStep, Statuses, Early, Terminal
<1>2. RestoreScript[2] = "quiesce" /\ RestoreScript[6] = "disable" BY DEF RestoreScript
<1>3. \A i \in 1..16 : RestoreScript[i] = "start" => i = 8 BY DEF RestoreScript
<1>4. \A i \in 1..16 : RestoreScript[i] = "enable" => i = 7 BY DEF RestoreScript
<1>5. \A i \in 1..16 : RestoreScript[i] = "RestoringPrevious" => i < 16 BY DEF RestoreScript
<1>6. Preceded(RestoreScript, "quiesce", "start")
  <2> SUFFICES ASSUME NEW i \in 1..16, RestoreScript[i] = "start"
               PROVE  \E j \in 1..(i - 1) : RestoreScript[j] = "quiesce"
    BY <1>1 DEF Preceded
  <2>1. 2 \in 1..(i - 1) BY <1>3
  <2> QED BY <1>2, <2>1
<1>7. Preceded(RestoreScript, "disable", "enable")
  <2> SUFFICES ASSUME NEW i \in 1..16, RestoreScript[i] = "enable"
               PROVE  \E j \in 1..(i - 1) : RestoreScript[j] = "disable"
    BY <1>1 DEF Preceded
  <2>1. 6 \in 1..(i - 1) BY <1>4
  <2> QED BY <1>2, <2>1
<1>8. RestoreScript # << >> BY DEF RestoreScript
<1>9. Sole(RestoreScript, "start") BY <1>1, <1>3 DEF Sole
<1> QED BY <1>1, <1>5, <1>6, <1>7, <1>8, <1>9 DEF Careful, Restoration

LEMMA RecoverCareful ==
  RecoverScript \in Seq(StepName) /\ RecoverScript # << >> /\ Careful(RecoverScript)
<1>1. RecoverScript \in Seq(StepName) /\ Len(RecoverScript) = 12
  BY DEF RecoverScript, StepName, QuietStep, Statuses, Early, Terminal
<1>2. RecoverScript[1] = "quiesce" /\ RecoverScript[5] = "disable" BY DEF RecoverScript
<1>3. \A i \in 1..12 : RecoverScript[i] = "start" => i = 7 BY DEF RecoverScript
<1>4. \A i \in 1..12 : RecoverScript[i] = "enable" => i = 6 BY DEF RecoverScript
<1>5. \A i \in 1..12 : RecoverScript[i] # "RestoringPrevious" BY DEF RecoverScript
<1>6. Preceded(RecoverScript, "quiesce", "start")
  <2> SUFFICES ASSUME NEW i \in 1..12, RecoverScript[i] = "start"
               PROVE  \E j \in 1..(i - 1) : RecoverScript[j] = "quiesce"
    BY <1>1 DEF Preceded
  <2>1. 1 \in 1..(i - 1) BY <1>3
  <2> QED BY <1>2, <2>1
<1>7. Preceded(RecoverScript, "disable", "enable")
  <2> SUFFICES ASSUME NEW i \in 1..12, RecoverScript[i] = "enable"
               PROVE  \E j \in 1..(i - 1) : RecoverScript[j] = "disable"
    BY <1>1 DEF Preceded
  <2>1. 5 \in 1..(i - 1) BY <1>4
  <2> QED BY <1>2, <2>1
<1>8. RecoverScript # << >> BY DEF RecoverScript
<1>9. Sole(RecoverScript, "start") BY <1>1, <1>3 DEF Sole
<1> QED BY <1>1, <1>5, <1>6, <1>7, <1>8, <1>9 DEF Careful, Restoration

\* Plans that neither start nor enable anything are careful.
LEMMA QuietCareful ==
  ASSUME NEW p \in Seq(QuietStep), p # << >>
  PROVE  p \in Seq(StepName) /\ Careful(p)
<1>1. p \in Seq(StepName) BY DEF StepName
<1>2. \A i \in 1..Len(p) : p[i] \in QuietStep OBVIOUS
<1>3. {"start", "enable", "RestoringPrevious"} \cap QuietStep = {}
  BY DEF QuietStep, Statuses, Early, Terminal
<1>4. \A i \in 1..Len(p) : p[i] # "start" /\ p[i] # "enable" /\ p[i] # "RestoringPrevious"
  BY <1>2, <1>3
<1> QED BY <1>1, <1>4 DEF Careful, Preceded, Sole, Restoration

LEMMA ConcatNonEmpty ==
  ASSUME NEW S, NEW p \in Seq(S), NEW q \in Seq(S), q # << >>
  PROVE  p \o q # << >>
<1>1. p \o q = << >> <=> p = << >> /\ q = << >> BY ConcatEqualIffEmpty
<1> QED BY <1>1

LEMMA QuietPlans ==
  /\ StageScript \in Seq(QuietStep) /\ StageScript # << >>
  /\ DeleteScript \in Seq(QuietStep) /\ DeleteScript # << >>
  /\ CompleteScript \in Seq(QuietStep) /\ CompleteScript # << >>
  /\ <<"persist">> \in Seq(QuietStep) /\ <<"persist">> # << >>
  /\ \A st \in Terminal : /\ <<st>> \o CompleteScript \in Seq(QuietStep)
                          /\ <<st>> \o CompleteScript # << >>
                          /\ <<st, "cli">> \in Seq(QuietStep) /\ <<st, "cli">> # << >>
  /\ <<"persist", "cli">> \o CompleteScript \in Seq(QuietStep)
  /\ <<"persist", "cli">> \o CompleteScript # << >>
  /\ << >> \o CompleteScript = CompleteScript
<1>1. /\ StageScript \in Seq(QuietStep) /\ StageScript # << >>
      /\ DeleteScript \in Seq(QuietStep) /\ DeleteScript # << >>
      /\ CompleteScript \in Seq(QuietStep) /\ CompleteScript # << >>
      /\ <<"persist">> \in Seq(QuietStep) /\ <<"persist">> # << >>
      /\ <<"persist", "cli">> \in Seq(QuietStep)
  BY DEF CompleteScript, StageScript, DeleteScript, QuietStep, Statuses, Early, Terminal
<1>2. ASSUME NEW p \in Seq(QuietStep)
      PROVE  p \o CompleteScript \in Seq(QuietStep) /\ p \o CompleteScript # << >>
  <2>1. p \o CompleteScript \in Seq(QuietStep) BY <1>1
  <2>2. p \o CompleteScript # << >> BY <1>1, ConcatNonEmpty
  <2> QED BY <2>1, <2>2
<1>3. ASSUME NEW st \in Terminal
      PROVE  /\ <<st>> \in Seq(QuietStep)
             /\ <<st, "cli">> \in Seq(QuietStep) /\ <<st, "cli">> # << >>
  BY DEF Terminal, QuietStep, Statuses
<1>4. << >> \o CompleteScript = CompleteScript BY <1>1, ConcatEmptySeq
<1> QED BY <1>1, <1>2, <1>3, <1>4

\* A new plan that is careful is safe whatever the machine looks like.
LEMMA CarefulSafe ==
  ASSUME NEW h, NEW e, e.plan \in Seq(StepName), e.plan # << >>, Careful(e.plan)
  PROVE  PlanSafe(h, e)
BY DEF PlanSafe, Careful

\* Controls and boot entries under a step that only stops services.
Fewer(h, k) ==
  /\ HostShape(k) /\ k.boot \subseteq h.boot
  /\ \A s \in Slot : k.control[s] # NoVersion => k.control[s] = h.control[s]

LEMMA OtherSlot ==
  \A s \in Slot : Other(s) \in Slot /\ Other(s) # s /\ Other(Other(s)) = s /\ Slot = {s, Other(s)}
BY DEF Slot, Other

LEMMA FewerKeeps ==
  ASSUME NEW h, NEW k, Fewer(h, k), OneUp(h), OneBoots(h)
  PROVE  OneUp(k) /\ OneBoots(k) /\ (Down(h) => Down(k))
<1>1. OneUp(k)
  <2>1. PICK s \in Slot : h.control[Other(s)] = NoVersion BY DEF OneUp
  <2>2. k.control[Other(s)] = NoVersion BY <2>1, OtherSlot DEF Fewer
  <2> QED BY <2>2 DEF OneUp
<1>2. OneBoots(k) BY DEF OneBoots, Fewer
<1>3. Down(h) => Down(k) BY DEF Down, Fewer
<1> QED BY <1>1, <1>2, <1>3

\* What the first step of the plan does to the controls and to the next boot.
LEMMA StoppedFewer ==
  ASSUME NEW h, HostShape(h), NEW units, NEW slots
  PROVE  /\ Fewer(h, Stopped(h, units, slots)) /\ Stopped(h, units, slots).boot = h.boot
         /\ \A s \in slots \cap Slot : Stopped(h, units, slots).control[s] = NoVersion
<1> DEFINE k == Stopped(h, units, slots)
           c == [s \in Slot |-> IF s \in slots THEN NoVersion ELSE h.control[s]]
<1>1. k = [h EXCEPT !.runners = h.runners \ units, !.control = c]
  BY DEF Stopped
<1> HIDE DEF k
<1>2. k.control = c /\ k.boot = h.boot /\ k.active = h.active
  <2> HIDE DEF c
  <2> QED BY <1>1 DEF HostShape
<1>3. k = [control |-> k.control, boot |-> k.boot, runners |-> k.runners, runnerBoot |-> k.runnerBoot,
           link |-> k.link, current |-> k.current, selected |-> k.selected, cli |-> k.cli,
           assets |-> k.assets, upstream |-> k.upstream, active |-> k.active,
           identity |-> k.identity, releases |-> k.releases]
  <2> HIDE DEF c
  <2> QED BY <1>1 DEF HostShape
<1>4. k.control = [s \in Slot |-> k.control[s]] BY <1>2
<1>5. HostShape(k) BY <1>2, <1>3, <1>4 DEF HostShape
<1>6. \A s \in Slot : k.control[s] = IF s \in slots THEN NoVersion ELSE h.control[s] BY <1>2
<1>7. Fewer(h, k) BY <1>2, <1>5, <1>6 DEF Fewer
<1> QED BY <1>2, <1>6, <1>7 DEF k

LEMMA EffectOnControls ==
  ASSUME ControlInv, NEW name
  PROVE  LET h == Effect(name) IN
         /\ HostShape(h)
         /\ name \notin {"start", "enable"} => Fewer(host, h)
         /\ name = "quiesce" => Down(h)
         /\ name = "start" => /\ h.boot = host.boot
                              /\ \A s \in Slot \ {exec.goal.slot} : h.control[s] = host.control[s]
         /\ name = "disable" => h.boot = host.boot \ {Other(exec.goal.slot)}
         /\ name = "enable" => /\ h.boot = host.boot \cup {exec.goal.slot}
                               /\ h.control = host.control
<1> DEFINE h == Effect(name)
<1> USE DEF ControlInv
<1>0. HostShape(host) /\ ActiveShape(exec.goal) /\ Fewer(host, host)
  BY DEF ExecShape, Fewer
<1>1. CASE name = "quiesce"
  <2>1. h = [Stopped(host, Unit, Slot) EXCEPT !.runnerBoot = @ \ Slot]
    BY <1>1 DEF Effect
  <2>2. HostShape(h) /\ h.boot = host.boot /\ \A s \in Slot : h.control[s] = NoVersion
    BY <1>0, <2>1 DEF HostShape, Stopped
  <2> QED BY <1>1, <2>2 DEF Fewer, Down
<1>2. CASE name = "start"
  <2>1. h = [host EXCEPT !.control[exec.goal.slot] = host.link[exec.goal.slot]]
    BY <1>2 DEF Effect
  <2>2. HostShape(h) /\ h.boot = host.boot
        /\ \A s \in Slot \ {exec.goal.slot} : h.control[s] = host.control[s]
    BY <1>0, <2>1 DEF HostShape
  <2> QED BY <1>2, <2>2
<1>3. CASE name = "enable"
  <2>1. h = [host EXCEPT !.boot = @ \cup {exec.goal.slot}] BY <1>3 DEF Effect
  <2>2. HostShape(h) /\ h.boot = host.boot \cup {exec.goal.slot} /\ h.control = host.control
    BY <1>0, <2>1 DEF HostShape
  <2> QED BY <1>3, <2>2
<1>4. CASE name = "disable"
  <2>1. h = [host EXCEPT !.boot = @ \ {Other(exec.goal.slot)}] BY <1>4 DEF Effect
  <2>2. HostShape(h) /\ h.boot = host.boot \ {Other(exec.goal.slot)} /\ h.control = host.control
    BY <1>0, <2>1 DEF HostShape
  <2> QED BY <1>4, <2>2 DEF Fewer
<1>5. CASE name = "unlink"
  <2> DEFINE linking == Linking(exec.job.version)
  <2>1. h = [Stopped(host, linking, linking) EXCEPT
               !.runnerBoot = @ \ linking,
               !.link = [s \in Slot |-> IF s \in linking THEN NoVersion ELSE @[s]]]
    BY <1>5 DEF Effect
  <2> HIDE DEF linking
  <2> DEFINE k == Stopped(host, linking, linking)
  <2>2. Fewer(host, k) BY <1>0, StoppedFewer
  <2> HIDE DEF k
  <2>3. h = [k EXCEPT !.runnerBoot = k.runnerBoot \ linking,
               !.link = [s \in Slot |-> IF s \in linking THEN NoVersion ELSE k.link[s]]]
    BY <2>1 DEF k
  <2>4. HostShape(h) /\ h.boot = k.boot /\ h.control = k.control
    BY <2>2, <2>3 DEF HostShape, Fewer
  <2>5. Fewer(host, h) BY <2>2, <2>4 DEF Fewer
  <2> QED BY <1>5, <2>4, <2>5
<1>6. CASE name = "commit"
  <2>1. h = [host EXCEPT !.active = exec.goal] BY <1>6 DEF Effect
  <2>2. HostShape(h) /\ Fewer(host, h) BY <1>0, <2>1 DEF HostShape, Fewer
  <2> QED BY <1>6, <2>2
<1>7. CASE name \notin {"quiesce", "start", "enable", "disable", "unlink", "commit"}
  <2>1. HostShape(h) /\ h.boot = host.boot /\ h.control = host.control
    BY <1>0, <1>7 DEF Effect, HostShape
  <2> QED BY <1>7, <2>1, <1>0 DEF Fewer
<1> QED BY <1>1, <1>2, <1>3, <1>4, <1>5, <1>6, <1>7

\* The machine after the first step, and the rest of the plan on it.
LEMMA HostAfterStep ==
  ASSUME ControlInv, Working
  PROVE  /\ HostShape(Effect(Step)) /\ OneUp(Effect(Step)) /\ OneBoots(Effect(Step))
         /\ \A e : /\ e.plan = Tail(exec.plan) /\ e.plan # << >> /\ e.goal.slot = exec.goal.slot
                   => PlanSafe(Effect(Step), e)
<1> DEFINE h == Effect(Step)
           p == exec.plan
<1>0. /\ p \in Seq(StepName) /\ p # << >> /\ Step = Head(p) /\ exec.goal.slot \in Slot
      /\ Down(host) \/ Preceded(p, "quiesce", "start")
      /\ Sole(p, "start") /\ Restoration(p)
      /\ host.boot \subseteq {exec.goal.slot} \/ Preceded(p, "disable", "enable")
      /\ OneUp(host) /\ OneBoots(host) /\ HostShape(host)
  BY DEF ControlInv, PlanSafe, Working, Step, ExecShape, ActiveShape
<1>1. /\ HostShape(h)
      /\ Step \notin {"start", "enable"} => Fewer(host, h)
      /\ Step = "quiesce" => Down(h)
      /\ Step = "start" => /\ h.boot = host.boot
                           /\ \A s \in Slot \ {exec.goal.slot} : h.control[s] = host.control[s]
      /\ Step = "disable" => h.boot = host.boot \ {Other(exec.goal.slot)}
      /\ Step = "enable" => /\ h.boot = host.boot \cup {exec.goal.slot}
                            /\ h.control = host.control
  BY EffectOnControls
<1> HIDE DEF h, p
<1>2. Step = "start" => Down(host) BY <1>0, PlanTail
<1>3. Step = "enable" => host.boot \subseteq {exec.goal.slot} BY <1>0, PlanTail
<1>4. OneUp(h)
  <2>1. CASE Step = "start"
    <3>1. h.control[Other(exec.goal.slot)] = NoVersion
      BY <1>0, <1>1, <1>2, <2>1, OtherSlot DEF Down
    <3> QED BY <1>0, <3>1 DEF OneUp
  <2>2. CASE Step = "enable" BY <1>0, <1>1, <2>2 DEF OneUp
  <2>3. CASE Step \notin {"start", "enable"} BY <1>0, <1>1, <2>3, FewerKeeps
  <2> QED BY <2>1, <2>2, <2>3
<1>5. OneBoots(h)
  <2>1. CASE Step = "start" BY <1>0, <1>1, <2>1 DEF OneBoots
  <2>2. CASE Step = "enable" BY <1>0, <1>1, <1>3, <2>2 DEF OneBoots
  <2>3. CASE Step \notin {"start", "enable"} BY <1>0, <1>1, <2>3, FewerKeeps
  <2> QED BY <2>1, <2>2, <2>3
<1>6. Tail(p) \in Seq(StepName) /\ Sole(Tail(p), "start") /\ Restoration(Tail(p))
  BY <1>0, PlanTail
<1>7. Down(h) \/ Preceded(Tail(p), "quiesce", "start")
  <2>1. CASE Step = "quiesce" BY <1>1, <2>1
  <2>2. CASE Step = "start" BY <1>0, <2>2, PlanTail
  <2>3. CASE Step = "enable" BY <1>0, <1>1, <2>3, PlanTail DEF Down
  <2>4. CASE Step \notin {"quiesce", "start", "enable"}
    <3>1. Down(host) => Down(h) BY <1>0, <1>1, <2>4, FewerKeeps
    <3>2. Preceded(p, "quiesce", "start") => Preceded(Tail(p), "quiesce", "start")
      BY <1>0, <2>4, PlanTail
    <3> QED BY <1>0, <3>1, <3>2
  <2> QED BY <2>1, <2>2, <2>3, <2>4
<1>8. h.boot \subseteq {exec.goal.slot} \/ Preceded(Tail(p), "disable", "enable")
  <2>1. CASE Step = "disable"
    <3>1. PICK s \in Slot : host.boot \subseteq {s} BY <1>0 DEF OneBoots
    <3> QED BY <1>0, <1>1, <2>1, <3>1, OtherSlot
  <2>2. CASE Step = "enable" BY <1>1, <1>3, <2>2
  <2>3. CASE Step \notin {"disable", "enable"}
    <3>1. h.boot \subseteq host.boot BY <1>1, <2>3 DEF Fewer
    <3>2. Preceded(p, "disable", "enable") => Preceded(Tail(p), "disable", "enable")
      BY <1>0, <2>3, PlanTail
    <3> QED BY <1>0, <3>1, <3>2
  <2> QED BY <2>1, <2>2, <2>3
<1>9. \A e : /\ e.plan = Tail(p) /\ e.plan # << >> /\ e.goal.slot = exec.goal.slot
             => PlanSafe(h, e)
  BY <1>6, <1>7, <1>8 DEF PlanSafe
<1> QED BY <1>1, <1>4, <1>5, <1>9 DEF h, p

\* complete_job after a new status.
LEMMA EndingSafe ==
  ASSUME NEW e, ExecShape(e), NEW st \in Terminal, NEW h
  PROVE  ExecShape(Ending(e, st)) /\ PlanSafe(h, Ending(e, st))
<1> DEFINE q == <<st>> \o CompleteScript
<1>1. q \in Seq(StepName) /\ q # << >> /\ Careful(q) BY QuietPlans, QuietCareful
<1> HIDE DEF q
<1>2. Ending(e, st) = [e EXCEPT !.mode = "complete", !.plan = q] BY DEF Ending, q
<1>3. ExecShape(Ending(e, st)) /\ Ending(e, st).plan = q
  BY <1>2 DEF ExecShape, Mode
<1> QED BY <1>1, <1>3, CarefulSafe

LEMMA OffSafe == ASSUME NEW h PROVE ExecShape(Off) /\ PlanSafe(h, Off)
BY DEF Off, ExecShape, PlanSafe, ActiveShape, NoActive, Mode, Slot

\* The executor after a step that succeeded.
LEMMA AfterSuccessSafe ==
  ASSUME ControlInv, Working
  PROVE  ExecShape(AfterSuccess(Step)) /\ PlanSafe(Effect(Step), AfterSuccess(Step))
<1> DEFINE h == Effect(Step)
           r == IF Step = "prepare" /\ RunnerIdentity(host.active) # NoRunner
                  THEN exec.job.id ELSE exec.goal.runner
           e == [exec EXCEPT !.plan = Tail(@), !.job = Remembered(Step),
                   !.goal.runner = IF Step = "prepare" /\ RunnerIdentity(host.active) # NoRunner
                                     THEN exec.job.id ELSE @]
           next == AfterSuccess(Step)
<1>0. ExecShape(exec) /\ HostShape(host) BY DEF ControlInv
<1>1. /\ e.mode = exec.mode /\ e.plan = Tail(exec.plan) /\ e.goal.slot = exec.goal.slot
      /\ ExecShape(e)
  <2> DEFINE j == Remembered(Step)
  <2>1. e = [exec EXCEPT !.plan = Tail(exec.plan), !.job = j, !.goal.runner = r]
    BY <1>0 DEF ExecShape, ActiveShape
  <2> HIDE DEF j, r
  <2>2. /\ e = [exec EXCEPT !.plan = Tail(exec.plan), !.job = j,
                  !.goal = [exec.goal EXCEPT !.runner = r]]
    BY <1>0, <2>1 DEF ExecShape, ActiveShape
  <2>3. ActiveShape([exec.goal EXCEPT !.runner = r]) /\ [exec.goal EXCEPT !.runner = r].slot = exec.goal.slot
    BY <1>0 DEF ExecShape, ActiveShape
  <2> DEFINE g == [exec.goal EXCEPT !.runner = r]
             q == Tail(exec.plan)
  <2> HIDE DEF g, q
  <2>4. e = [exec EXCEPT !.plan = q, !.job = j, !.goal = g] BY <2>2 DEF g, q
  <2> HIDE DEF e
  <2>5. ActiveShape(g) /\ g.slot = exec.goal.slot BY <2>3 DEF g
  <2>6. /\ e.mode = exec.mode /\ e.plan = q /\ e.goal = g /\ ExecShape(e)
    BY <1>0, <2>4, <2>5 DEF ExecShape
  <2> QED BY <2>5, <2>6 DEF q
<1> HIDE DEF e
<1>2. CASE e.plan # << >>
  <2>1. next = e BY <1>2 DEF AfterSuccess, e
  <2> QED BY <1>1, <1>2, <2>1, HostAfterStep
<1>3. CASE e.plan = << >>
  <2>0. e.mode \in Mode \ {"off"} BY <1>1 DEF ExecShape, Working
  <2>1. CASE e.mode = "stage"
    <3> DEFINE g == [slot |-> Other(host.active.slot), version |-> e.job.version, runner |-> NoRunner]
    <3>1. next = [e EXCEPT !.mode = "upgrade", !.plan = UpgradeScript, !.prior = host.active,
                    !.assets = host.assets, !.upstream = host.upstream, !.goal = g]
      BY <1>3, <2>1 DEF AfterSuccess, e
    <3>2. ActiveShape(g) /\ ActiveShape(host.active)
      BY <1>0, OtherSlot DEF HostShape, ActiveShape
    <3> HIDE DEF g
    <3>3. ExecShape(next) /\ next.plan = UpgradeScript
      BY <1>1, <3>1, <3>2 DEF ExecShape, Mode
    <3> QED BY <3>3, UpgradeCareful, CarefulSafe
  <2>2. CASE e.mode \in {"upgrade", "delete"}
    <3>1. next = Ending(e, "Succeeded") BY <1>3, <2>2 DEF AfterSuccess, e
    <3>2. PICK st \in Terminal : st = "Succeeded" BY DEF Terminal
    <3> QED BY <1>1, <3>1, <3>2, EndingSafe
  <2>3. CASE e.mode = "restore"
    <3>1. next = Ending(e, "Failed") BY <1>3, <2>3 DEF AfterSuccess, e
    <3>2. PICK st \in Terminal : st = "Failed" BY DEF Terminal
    <3> QED BY <1>1, <3>1, <3>2, EndingSafe
  <2>4. CASE e.mode = "recover"
    <3>1. PICK st \in Terminal : st = RecoveredAs(e.job) BY DEF Terminal, RecoveredAs
    <3>2. next = [e EXCEPT !.mode = "settle", !.plan = <<st, "cli">>]
      BY <1>3, <2>4, <3>1 DEF AfterSuccess, e
    <3>3. ExecShape(next) /\ next.plan = <<st, "cli">> BY <1>1, <3>2 DEF ExecShape, Mode
    <3>4. <<st, "cli">> \in Seq(QuietStep) /\ <<st, "cli">> # << >> BY QuietPlans
    <3> QED BY <3>3, <3>4, QuietCareful, CarefulSafe
  <2>5. CASE e.mode = "settle"
    <3>1. next = [e EXCEPT !.mode = "complete", !.plan = CompleteScript]
      BY <1>3, <2>5 DEF AfterSuccess, e
    <3>2. ExecShape(next) /\ next.plan = CompleteScript BY <1>1, <3>1 DEF ExecShape, Mode
    <3> QED BY <3>2, QuietPlans, QuietCareful, CarefulSafe
  <2>6. CASE e.mode \in {"complete", "exit"}
    <3>1. next = Off BY <1>3, <2>6 DEF AfterSuccess, e
    <3> QED BY <3>1, OffSafe
  <2> QED BY <2>0, <2>1, <2>2, <2>3, <2>4, <2>5, <2>6 DEF Mode
<1> QED BY <1>2, <1>3

\* The executor after a step that failed: another plan, none, or, when only
\* the announcement of a restoration could not be written, the rest of it.
LEMMA AfterFailureSafe ==
  ASSUME ControlInv, Working, NEW job
  PROVE  LET next == AfterFailure(Step, job) IN
         /\ ExecShape(next)
         /\ \/ \A h : PlanSafe(h, next)
            \/ /\ Step = "RestoringPrevious" /\ next.plan = Tail(exec.plan) /\ next.plan # << >>
               /\ next.goal.slot = exec.goal.slot
<1> DEFINE e == [exec EXCEPT !.job = job]
           next == AfterFailure(Step, job)
<1>1. ExecShape(e) /\ e.plan = exec.plan /\ e.mode = exec.mode /\ e.goal = exec.goal
      /\ ActiveShape(exec.prior)
  BY DEF ControlInv, ExecShape
<1> HIDE DEF e
<1>2. PICK z \in Terminal : z = "Failed" BY DEF Terminal
<1>3. ExecShape(Ending(e, "Failed")) /\ \A h : PlanSafe(h, Ending(e, "Failed"))
  BY <1>1, <1>2, EndingSafe
<1>4. CASE e.mode \in {"stage", "delete"}
  BY <1>3, <1>4 DEF AfterFailure, e
<1>5. CASE e.mode = "upgrade"
  <2>1. next = [e EXCEPT !.mode = "restore", !.plan = RestoreScript, !.goal = exec.prior]
    BY <1>5 DEF AfterFailure, e
  <2>2. ExecShape(next) /\ next.plan = RestoreScript BY <1>1, <2>1 DEF ExecShape, Mode
  <2> QED BY <2>2, RestoreCareful, CarefulSafe
<1>6. CASE e.mode = "restore" /\ Step = "RestoringPrevious"
  <2>1. next = [e EXCEPT !.plan = Tail(exec.plan)] BY <1>1, <1>6 DEF AfterFailure, e
  <2>2. exec.plan \in Seq(StepName) /\ exec.plan # << >> /\ Restoration(exec.plan)
    BY DEF ControlInv, PlanSafe, Working
  <2>3. Tail(exec.plan) # << >> BY <1>6, <2>2, PlanTail DEF Step
  <2>4. ExecShape(next) /\ next.plan = Tail(exec.plan) /\ next.goal = exec.goal
    BY <1>1, <2>1 DEF ExecShape
  <2> QED BY <1>6, <2>3, <2>4
<1>7. CASE e.mode = "restore" /\ Step # "RestoringPrevious"
  <2>1. CASE job.status = "RestoringPrevious"
    <3>1. next = [e EXCEPT !.mode = "exit", !.plan = <<"persist">>]
      BY <1>7, <2>1 DEF AfterFailure, e
    <3>2. ExecShape(next) /\ next.plan = <<"persist">> BY <1>1, <3>1 DEF ExecShape, Mode
    <3> QED BY <3>2, QuietPlans, QuietCareful, CarefulSafe
  <2>2. CASE job.status # "RestoringPrevious"
    <3>1. next = Ending(e, "Failed") BY <1>7, <2>2 DEF AfterFailure, e
    <3> QED BY <1>3, <3>1
  <2> QED BY <2>1, <2>2
<1>8. CASE e.mode = "settle" /\ Step = "cli"
  <2> DEFINE j == [job EXCEPT !.status = "Failed"]
  <2>1. next = [e EXCEPT !.mode = "exit", !.job = j, !.plan = <<"persist">>]
    BY <1>8 DEF AfterFailure, e, ControlInv, ExecShape
  <2> HIDE DEF j
  <2>2. ExecShape(next) /\ next.plan = <<"persist">> BY <1>1, <2>1 DEF ExecShape, Mode
  <2> QED BY <2>2, QuietPlans, QuietCareful, CarefulSafe
<1>9. CASE e.mode \notin {"stage", "delete", "upgrade", "restore"} /\ ~(e.mode = "settle" /\ Step = "cli")
  <2>1. next = Off BY <1>9 DEF AfterFailure, e
  <2> QED BY <2>1, OffSafe
<1> QED BY <1>4, <1>5, <1>6, <1>7, <1>8, <1>9

\* Steps of the executor and of everything else that leave the plan alone.
LEMMA HostChanges ==
  ASSUME ControlInv, exec' = exec, Fewer(host, host')
  PROVE  ControlInv'
<1>1. HostShape(host') /\ OneUp(host') /\ OneBoots(host') /\ (Down(host) => Down(host'))
  BY FewerKeeps DEF ControlInv, Fewer
<1>2. PlanSafe(host, exec) => PlanSafe(host', exec)
  BY <1>1 DEF PlanSafe, Fewer
<1> QED BY <1>1, <1>2 DEF ControlInv

LEMMA SameHost == ControlInv => Fewer(host, host)
BY DEF ControlInv, Fewer

LEMMA ExecutorStops ==
  ASSUME ControlInv, Fewer(host, host'), exec' = Off
  PROVE  ControlInv'
<1>1. HostShape(host') /\ OneUp(host') /\ OneBoots(host')
  BY FewerKeeps DEF ControlInv, Fewer
<1> QED BY <1>1, OffSafe DEF ControlInv

LEMMA StepSucceeds_Keeps ==
  ASSUME ControlInv, StepSucceeds
  PROVE  ControlInv'
<1>1. host' = Effect(Step) /\ exec' = AfterSuccess(Step) /\ Working
  BY DEF StepSucceeds, Perform
<1> QED BY <1>1, HostAfterStep, AfterSuccessSafe DEF ControlInv

\* A step that failed may have had its effect, none or, for quiesce, a part.
LEMMA Failure_Keeps ==
  ASSUME ControlInv, Working, NEW job, exec' = AfterFailure(Step, job),
         \/ host' = host
         \/ host' = Effect(Step)
         \/ Step = "quiesce" /\ Fewer(host, host')
  PROVE  ControlInv'
<1>1. /\ ExecShape(exec')
      /\ \/ \A h : PlanSafe(h, exec')
         \/ /\ Step = "RestoringPrevious" /\ exec'.plan = Tail(exec.plan) /\ exec'.plan # << >>
            /\ exec'.goal.slot = exec.goal.slot
  BY AfterFailureSafe
<1>2. HostShape(host') /\ OneUp(host') /\ OneBoots(host')
  BY HostAfterStep, FewerKeeps, SameHost DEF Fewer, ControlInv
<1>3. Step = "RestoringPrevious" => Effect(Step) = host
  BY DEF Effect
<1>4. PlanSafe(host', exec')
  BY <1>1, <1>3, HostAfterStep
<1> QED BY <1>1, <1>2, <1>4 DEF ControlInv

LEMMA PartlyStoppedFewer ==
  ASSUME ControlInv, NEW k
  PROVE  Fewer(host, PartlyStopped(k))
BY StoppedFewer DEF PartlyStopped, ControlInv

LEMMA StepFails_Keeps ==
  ASSUME ControlInv, StepFails \/ StepRefused
  PROVE  ControlInv'
<1>1. CASE StepRefused
  BY <1>1, Failure_Keeps DEF StepRefused, NothingDone
<1>2. CASE StepFails
  <2>1. Working /\ exec' = AfterFailure(Step, Remembered(Step)) BY <1>2 DEF StepFails
  <2>2. \/ host' = host
        \/ host' = Effect(Step)
        \/ Step = "quiesce" /\ Fewer(host, host')
    BY <1>2, PartlyStoppedFewer DEF StepFails, NothingDone, Perform
  <2> QED BY <2>1, <2>2, Failure_Keeps
<1> QED BY <1>1, <1>2

LEMMA Restart_Keeps ==
  ASSUME ControlInv, Restart
  PROVE  ControlInv'
<1> DEFINE c == [s \in Slot |-> IF s \in host.boot THEN host.link[s] ELSE NoVersion]
<1>1. host' = [host EXCEPT !.runners = host.runnerBoot, !.control = c] /\ exec' = Off
  BY DEF Restart
<1>2. host'.control = c /\ host'.boot = host.boot /\ HostShape(host')
  <2>1. c = [s \in Slot |-> c[s]] OBVIOUS
  <2> HIDE DEF c
  <2> QED BY <1>1, <2>1 DEF ControlInv, HostShape
<1>3. PICK s \in Slot : host.boot \subseteq {s} BY DEF ControlInv, OneBoots
<1>4. host'.control[Other(s)] = NoVersion BY <1>2, <1>3, OtherSlot
<1>5. OneUp(host') /\ OneBoots(host') BY <1>2, <1>3, <1>4 DEF OneUp, OneBoots
<1> QED BY <1>1, <1>2, <1>5, OffSafe DEF ControlInv

LEMMA ExecutorStarts_Keeps ==
  ASSUME ControlInv, ExecutorStarts
  PROVE  ControlInv'
<1>1. host' = host /\ HostShape(host) /\ OneUp(host) /\ OneBoots(host)
  BY DEF ExecutorStarts, ControlInv
<1>2. ExecShape(exec') /\ PlanSafe(host, exec')
  <2>1. CASE file # NoJob
    <3> DEFINE e == [Off EXCEPT !.job = file, !.goal = host.active]
    <3>1. ExecShape(e)
      <4>1. ExecShape(Off) /\ ActiveShape(host.active) BY <1>1, OffSafe DEF HostShape
      <4> HIDE DEF e
      <4>2. e = [Off EXCEPT !.job = file, !.goal = host.active] BY DEF e
      <4> QED BY <4>1, <4>2 DEF ExecShape
    <3> HIDE DEF e
    <3>2. CASE file.status \in Terminal
      <4>1. PICK q \in Seq(QuietStep) :
                q # << >> /\ exec' = [e EXCEPT !.mode = "complete", !.plan = q]
        <5>1. CASE file.claimed
          <6> DEFINE q == <<"persist", "cli">> \o CompleteScript
          <6>1. exec' = [e EXCEPT !.mode = "complete", !.plan = q]
            BY <2>1, <3>2, <5>1 DEF ExecutorStarts, e
          <6>2. q \in Seq(QuietStep) /\ q # << >> BY QuietPlans
          <6> HIDE DEF q
          <6> QED BY <6>1, <6>2
        <5>2. CASE ~file.claimed
          <6>1. exec' = [e EXCEPT !.mode = "complete", !.plan = << >> \o CompleteScript]
            BY <2>1, <3>2, <5>2 DEF ExecutorStarts, e
          <6>2. exec' = [e EXCEPT !.mode = "complete", !.plan = CompleteScript]
            BY <6>1, QuietPlans
          <6> QED BY <6>2, QuietPlans
        <5> QED BY <5>1, <5>2
      <4>2. ExecShape(exec') /\ exec'.plan = q BY <3>1, <4>1 DEF ExecShape, Mode
      <4> QED BY <4>1, <4>2, QuietCareful, CarefulSafe
    <3>3. CASE file.status \notin Terminal /\ file.op = "upgrade" /\ file.status \notin Early
      <4>1. exec' = [e EXCEPT !.mode = "recover", !.plan = RecoverScript]
        BY <2>1, <3>3 DEF ExecutorStarts, e
      <4>2. ExecShape(exec') /\ exec'.plan = RecoverScript BY <3>1, <4>1 DEF ExecShape, Mode
      <4> QED BY <4>2, RecoverCareful, CarefulSafe
    <3>4. CASE file.status \notin Terminal /\ ~(file.op = "upgrade" /\ file.status \notin Early)
      <4>1. exec' = Ending(e, "Failed") BY <2>1, <3>4 DEF ExecutorStarts, e
      <4>2. PICK z \in Terminal : z = "Failed" BY DEF Terminal
      <4> QED BY <3>1, <4>1, <4>2, EndingSafe
    <3> QED BY <3>2, <3>3, <3>4
  <2>2. CASE file = NoJob
    <3>1. PICK m \in {"stage", "delete"}, q \in {StageScript, DeleteScript} :
             exec' = [Off EXCEPT !.job = file', !.mode = m, !.plan = q]
      BY <2>2 DEF ExecutorStarts
    <3>2. q \in Seq(QuietStep) /\ q # << >> BY QuietPlans
    <3>3. ExecShape(exec') /\ exec'.plan = q
      BY <3>1, OffSafe DEF ExecShape, Mode
    <3> QED BY <3>2, <3>3, QuietCareful, CarefulSafe
  <2> QED BY <2>1, <2>2
<1> QED BY <1>1, <1>2 DEF ControlInv

LEMMA OtherSteps_Keep ==
  ASSUME ControlInv,
         \/ \E j \in Job, v \in Version, op \in {"upgrade", "delete"} : SubmissionChecked(j, op, v)
         \/ SubmissionQueued
         \/ \E j \in Job, v \in Version : CliUpgrade(j, v)
         \/ SwitchRunner \/ RegistryStep
         \/ UNCHANGED maintenanceVars
  PROVE  ControlInv'
<1>1. exec' = exec
  BY DEF SubmissionChecked, SubmissionQueued, CliUpgrade, SwitchRunner, RegistryStep, maintenanceVars
<1>2. Fewer(host, host')
  <2>1. CASE host' = host BY <2>1, SameHost
  <2>2. ASSUME NEW j \in Job, NEW v \in Version, CliUpgrade(j, v) PROVE Fewer(host, host')
    BY <2>2 DEF CliUpgrade, ControlInv, HostShape, Fewer
  <2>3. CASE SwitchRunner
    <3>1. PICK a, b : host' = [host EXCEPT !.runners = a, !.runnerBoot = b]
      BY <2>3 DEF SwitchRunner
    <3> QED BY <3>1 DEF ControlInv, HostShape, Fewer
  <2> QED BY <2>1, <2>2, <2>3 DEF SubmissionChecked, SubmissionQueued, RegistryStep, maintenanceVars
<1> QED BY <1>1, <1>2, HostChanges

LEMMA ControlStep == ControlInv /\ [MaintenanceNext]_maintenanceVars => ControlInv'
<1> SUFFICES ASSUME ControlInv, [MaintenanceNext]_maintenanceVars PROVE ControlInv' OBVIOUS
<1>1. CASE ExecutorDies
  BY <1>1, ExecutorStops, SameHost DEF ExecutorDies, NothingDone
<1> QED BY <1>1, OtherSteps_Keep, ExecutorStarts_Keeps, Restart_Keeps, StepFails_Keeps,
        StepSucceeds_Keeps DEF MaintenanceNext

LEMMA ControlInitially == MaintenanceInit => ControlInv
<1> SUFFICES ASSUME MaintenanceInit PROVE ControlInv OBVIOUS
<1>1. exec = Off BY DEF MaintenanceInit
<1>2. HostShape(host)
  BY DEF MaintenanceInit, HostShape, ActiveShape, Slot
<1>3. OneUp(host) /\ OneBoots(host)
  <2>1. host.boot = {"blue"} /\ host.control["green"] = NoVersion
    BY DEF MaintenanceInit, Slot
  <2> QED BY <2>1 DEF OneUp, OneBoots, Slot, Other
<1> QED BY <1>1, <1>2, <1>3, OffSafe DEF ControlInv

\* At most one control runs (execute_platform_maintenance and
\* recover_interrupted_jobs, maintenance_executor.rs), however many jobs are
\* submitted and however often a step fails, the executor dies or the machine
\* restarts.
THEOREM ControlsExclusive == MaintenanceSpec => []OneControl
<1>1. ControlInv => OneControl
  <2> SUFFICES ASSUME ControlInv PROVE OneControl OBVIOUS
  <2>1. PICK s \in Slot : host.control[Other(s)] = NoVersion BY DEF ControlInv, OneUp
  <2> DEFINE U == {t \in Slot : host.control[t] # NoVersion}
  <2>2. U \subseteq {s} BY <2>1, OtherSlot
  <2>3. IsFiniteSet({s}) /\ Cardinality({s}) = 1 BY FS_Singleton
  <2>4. IsFiniteSet(U) /\ Cardinality(U) <= 1 BY <2>2, <2>3, FS_Subset
  <2> QED BY <2>4 DEF OneControl
<1>2. MaintenanceSpec => []ControlInv
  BY ControlInitially, ControlStep, PTL DEF MaintenanceSpec
<1> QED BY <1>1, <1>2, PTL
-----------------------------------------------------------------------------
(***************************************************************************)
(* Runtime control of a slot: drain, retirement and exit are safe for any  *)
(* number of requests and admission commands, and a process opens only     *)
(* when it is ready.                                                       *)
(*                                                                         *)
(* What makes them so: a stopping process never accepts, so the registry   *)
(* can only shrink (StoppedShut); the shutdown task is past begin_shutdown *)
(* when it looks at the registry; the gate is closed behind the last       *)
(* mutation and before the process exits (GateOrder).                      *)
(***************************************************************************)

\* A stopping process does not accept, and the shutdown task waits for the
\* drain of a stopping process only.
StoppedShut ==
  /\ stopping => ~accepting
  /\ waiter \in {"enable", "check", "await", "sent"} => stopping

\* The gate closes when serve ends, after the last mutation, and serve ends
\* after the drain unless a listener fails.
GateOrder ==
  /\ gate = "open" <=> main = "serving"
  /\ main = "exited" => gate = "closed"
  /\ gate = "closed" => Mutating = {}
  /\ main # "serving" => failed \/ waiter = "sent"

LifecycleInv ==
  TypeOK /\ StoppedShut /\ GateOrder /\ DrainedStaysEmpty /\ RetiredStaysEmpty

LEMMA LifecycleInitOK == Init => LifecycleInv
  <1> SUFFICES ASSUME Init PROVE LifecycleInv
    OBVIOUS
  <1>1. TypeOK
    <2>1. revision \in {0, 1} /\ {0, 1} \subseteq 0..MaxRevision
      BY LifecycleAssumption DEF Init
    <2>2. revision \in 0..MaxRevision
      BY <2>1
    <2> QED
      BY <2>2 DEF Init, TypeOK
  <1>2. StoppedShut /\ DrainedStaysEmpty /\ RetiredStaysEmpty
    BY DEF Init, StoppedShut, DrainedStaysEmpty, RetiredStaysEmpty
  <1>3. GateOrder
    BY DEF Init, GateOrder
  <1> QED
    BY <1>1, <1>2, <1>3 DEF LifecycleInv

\* What the steps of requests do to the registry of a process: they keep the
\* flags, and give an owner only to a request that has one or is admitted.
LEMMA RequestEffect ==
  ASSUME LifecycleInv, NEW r \in Request,
         Admit(r) \/ SpawnStream(r) \/ BeginMutation(r) \/ OwnerSteps(r)
  PROVE  /\ UNCHANGED <<registry, gate, waiter, main, failed, retired>>
         /\ TypeOK'
         /\ \A q \in Request : owners[q] = {} /\ owners'[q] # {} => accepting
         /\ \A q \in Request : "mutation" \in owners'[q] =>
              "mutation" \in owners[q] \/ gate = "open"
  <1> USE DEF LifecycleInv, TypeOK
  <1>1. CASE Admit(r)
    BY <1>1 DEF Admit, Own, process, registry, Owner
  <1>2. CASE SpawnStream(r)
    BY <1>2 DEF SpawnStream, Own, process, registry, Owner
  <1>3. CASE BeginMutation(r)
    BY <1>3 DEF BeginMutation, Own, process, registry, Owner
  <1>4. CASE HandlerEnds(r)
    BY <1>4 DEF HandlerEnds, Disown, Own, Notify, process, registry, Owner
  <1>5. CASE StreamEnds(r)
    BY <1>5 DEF StreamEnds, Disown, Own, Notify, process, registry, Owner
  <1>6. CASE TrackEnds(r)
    BY <1>6 DEF TrackEnds, Disown, Own, Notify, process, registry, Owner
  <1>7. CASE BodyEnds(r)
    BY <1>7 DEF BodyEnds, Disown, Own, Notify, process, registry, Owner
  <1>8. CASE EndMutation(r)
    BY <1>8 DEF EndMutation, Disown, Own, Notify, process, registry, Owner
  <1>9. CASE \E empty \in BOOLEAN : Respond(r, empty)
    BY <1>9 DEF Respond, Disown, Own, Notify, process, registry, Owner
  <1> QED
    BY <1>1, <1>2, <1>3, <1>4, <1>5, <1>6, <1>7, <1>8, <1>9 DEF OwnerSteps

LEMMA RequestStep ==
  ASSUME LifecycleInv, NEW r \in Request,
         Admit(r) \/ SpawnStream(r) \/ BeginMutation(r) \/ OwnerSteps(r)
  PROVE  LifecycleInv'
  <1>1. /\ UNCHANGED <<registry, gate, waiter, main, failed, retired>> /\ TypeOK'
        /\ \A q \in Request : owners[q] = {} /\ owners'[q] # {} => accepting
        /\ \A q \in Request : "mutation" \in owners'[q] =>
             "mutation" \in owners[q] \/ gate = "open"
    BY RequestEffect
  <1>2. StoppedShut'
    BY <1>1 DEF LifecycleInv, StoppedShut, registry
  <1>3. GateOrder'
    BY <1>1 DEF LifecycleInv, GateOrder, Mutating, registry
  <1>4. DrainedStaysEmpty' /\ RetiredStaysEmpty'
    BY <1>1 DEF LifecycleInv, DrainedStaysEmpty, RetiredStaysEmpty, InFlight, registry
  <1> QED
    BY <1>1, <1>2, <1>3, <1>4 DEF LifecycleInv

\* The commands of the executor do not touch an owner.
LEMMA CommandStep ==
  ASSUME LifecycleInv, NEW expected \in 0..MaxRevision, NEW open \in BOOLEAN,
         SetAdmission(expected, open) \/ RetireDrained(expected)
  PROVE  LifecycleInv'
  <1> USE LifecycleAssumption
  <1>1. CASE SetAdmission(expected, open)
    <2>1. TypeOK'
      BY <1>1 DEF SetAdmission, Notify, process, LifecycleInv, TypeOK
    <2>2. ~stopping /\ UNCHANGED <<stopping, owners, gate, main, failed, waiter, retired>>
      BY <1>1 DEF SetAdmission, process
    <2>3. GateOrder'
      BY <2>2 DEF LifecycleInv, GateOrder, Mutating
    <2> QED
      BY <2>1, <2>2, <2>3 DEF LifecycleInv, StoppedShut, DrainedStaysEmpty, RetiredStaysEmpty
  <1>2. CASE RetireDrained(expected)
    <2>1. TypeOK'
      BY <1>2 DEF RetireDrained, Notify, process, LifecycleInv, TypeOK
    <2>2. /\ stopping' /\ ~accepting' /\ InFlight = {}
          /\ UNCHANGED <<owners, gate, main, failed, waiter>>
      BY <1>2 DEF RetireDrained, process
    <2>3. GateOrder'
      BY <2>2 DEF LifecycleInv, GateOrder, Mutating
    <2> QED
      BY <2>1, <2>2, <2>3 DEF LifecycleInv, StoppedShut, DrainedStaysEmpty,
         RetiredStaysEmpty, InFlight
  <1> QED
    BY <1>1, <1>2

\* Neither do the shutdown task and the end of serve.
LEMMA BeginShutdownEffect ==
  ASSUME LifecycleInv, BeginShutdown
  PROVE  TypeOK' /\ stopping' /\ ~accepting' /\ waiter' = "enable" /\ main = "serving"
           /\ UNCHANGED <<owners, process, retired>>
  <1>1. stopping' /\ waiter' = "enable" /\ UNCHANGED <<arrived, owners, process, woken, retired>>
          /\ main = "serving"
    BY DEF BeginShutdown
  <1>2. ~accepting'
    BY DEF BeginShutdown, LifecycleInv, StoppedShut
  <1>3. revision' \in 0..MaxRevision
    BY LifecycleAssumption DEF BeginShutdown, LifecycleInv, TypeOK
  <1>4. accepting' \in BOOLEAN /\ stopping' \in BOOLEAN
    BY DEF BeginShutdown, LifecycleInv, TypeOK
  <1> QED
    BY <1>1, <1>2, <1>3, <1>4 DEF LifecycleInv, TypeOK, process

LEMMA ProcessStep ==
  ASSUME LifecycleInv, WaiterSteps \/ ShutdownSignal \/ MainSteps \/ ListenerFails
  PROVE  LifecycleInv'
  <1>1. CASE BeginShutdown
    <2>1. TypeOK' /\ stopping' /\ ~accepting' /\ waiter' = "enable" /\ main = "serving"
            /\ UNCHANGED <<owners, process, retired>>
      BY <1>1, BeginShutdownEffect
    <2>2. GateOrder'
      BY <2>1 DEF LifecycleInv, GateOrder, Mutating, process
    <2> QED
      BY <2>1, <2>2 DEF LifecycleInv, StoppedShut, DrainedStaysEmpty, RetiredStaysEmpty, InFlight
  <1>2. CASE CheckDrained
    <2>1. /\ UNCHANGED <<registry, arrived, owners, process, woken, retired>>
          /\ waiter = "check" /\ main = "serving" /\ waiter' \in {"sent", "await"}
          /\ waiter' = "sent" => ~accepting /\ InFlight = {}
      BY <1>2 DEF CheckDrained
    <2>2. TypeOK'
      BY <2>1 DEF LifecycleInv, TypeOK, registry, process
    <2>3. GateOrder'
      BY <2>1 DEF LifecycleInv, GateOrder, Mutating, process
    <2>4. DrainedStaysEmpty' /\ RetiredStaysEmpty' /\ StoppedShut'
      BY <2>1 DEF LifecycleInv, DrainedStaysEmpty, RetiredStaysEmpty, StoppedShut, InFlight, registry
    <2> QED
      BY <2>2, <2>3, <2>4 DEF LifecycleInv
  <1>3. CASE WaitShutdown \/ WakeUp \/ ShutdownSignal \/ EnableDrained \/ AwaitDrained
    <2>1. /\ UNCHANGED <<registry, arrived, owners, process, retired>>
          /\ main = "serving" /\ waiter' \in {"signal", "asleep", "begin", "enable", "check"}
          /\ waiter' \in {"enable", "check"} => waiter \in {"enable", "await"}
      BY <1>3 DEF WaitShutdown, WakeUp, ShutdownSignal, EnableDrained, AwaitDrained
    <2>2. woken' \in BOOLEAN
      BY <1>3 DEF WaitShutdown, WakeUp, ShutdownSignal, EnableDrained, AwaitDrained,
         LifecycleInv, TypeOK
    <2>3. TypeOK'
      BY <2>1, <2>2 DEF LifecycleInv, TypeOK, registry, process
    <2>4. GateOrder'
      BY <2>1 DEF LifecycleInv, GateOrder, Mutating, process
    <2>5. DrainedStaysEmpty' /\ RetiredStaysEmpty' /\ StoppedShut'
      BY <2>1 DEF LifecycleInv, DrainedStaysEmpty, RetiredStaysEmpty, StoppedShut, InFlight, registry
    <2> QED
      BY <2>3, <2>4, <2>5 DEF LifecycleInv
  <1>4. CASE MainSteps \/ ListenerFails
    <2>1. UNCHANGED <<registry, arrived, owners, waiter, woken, retired>>
      BY <1>4 DEF MainSteps, ListenersEnd, DrainMutations, Exit, ListenerFails
    <2>2. TypeOK'
      BY <1>4, <2>1 DEF MainSteps, ListenersEnd, DrainMutations, Exit, ListenerFails,
         LifecycleInv, TypeOK, registry
    <2>3. GateOrder'
      BY <1>4, <2>1 DEF MainSteps, ListenersEnd, DrainMutations, Exit, ListenerFails,
         LifecycleInv, GateOrder, Mutating
    <2>4. DrainedStaysEmpty' /\ RetiredStaysEmpty' /\ StoppedShut'
      BY <2>1 DEF LifecycleInv, DrainedStaysEmpty, RetiredStaysEmpty, StoppedShut, InFlight, registry
    <2> QED
      BY <2>2, <2>3, <2>4 DEF LifecycleInv
  <1> QED
    BY <1>1, <1>2, <1>3, <1>4 DEF WaiterSteps

LEMMA LifecycleNextOK == LifecycleInv /\ [Next]_vars => LifecycleInv'
  <1> SUFFICES ASSUME LifecycleInv, [Next]_vars PROVE LifecycleInv'
    OBVIOUS
  <1>1. CASE Requests
    BY <1>1, RequestStep DEF Requests
  <1>2. CASE \E expected \in 0..MaxRevision :
               \/ \E open \in BOOLEAN : SetAdmission(expected, open)
               \/ RetireDrained(expected)
    BY <1>2, CommandStep
  <1>3. CASE WaiterSteps \/ ShutdownSignal \/ MainSteps \/ ListenerFails
    BY <1>3, ProcessStep
  <1>4. CASE UNCHANGED vars
    BY <1>4 DEF vars, LifecycleInv, TypeOK, StoppedShut, GateOrder, DrainedStaysEmpty,
       RetiredStaysEmpty, InFlight, Mutating
  <1> QED
    BY <1>1, <1>2, <1>3, <1>4 DEF Next

\* The strengthened invariant holds in every state of a Control process.
THEOREM LifecycleInvariant == Spec => []LifecycleInv
  BY LifecycleInitOK, LifecycleNextOK, PTL DEF Spec

\* An empty draining process stays empty.
THEOREM LifecycleDrained == Spec => []DrainedStaysEmpty
  BY LifecycleInvariant, PTL DEF LifecycleInv

\* A retired process stays empty.
THEOREM LifecycleRetired == Spec => []RetiredStaysEmpty
  BY LifecycleInvariant, PTL DEF LifecycleInv

\* No exit cuts a mutation off, and a regular one cuts nothing off.
THEOREM LifecycleExit == Spec => []ExitCutsNothing
  <1>1. LifecycleInv => ExitCutsNothing
    BY DEF LifecycleInv, GateOrder, DrainedStaysEmpty, ExitCutsNothing
  <1> QED
    BY <1>1, LifecycleInvariant, PTL

\* While the process stops, its work only leaves.
THEOREM LifecycleOnlyDrains == Spec => ShutdownOnlyDrains
  <1> DEFINE Drains == stopping => stopping' /\ ~accepting' /\ \A r \in Request :
                                     owners[r] = {} => owners'[r] = {}
  <1>1. LifecycleInv /\ LifecycleInv' /\ [Next]_vars => [Drains]_vars
    <2> SUFFICES ASSUME LifecycleInv, LifecycleInv', Next, stopping PROVE Drains
      OBVIOUS
    <2>0. ~accepting /\ (stopping' => ~accepting')
      BY DEF LifecycleInv, StoppedShut
    <2>1. CASE Requests
      <3>1. PICK r \in Request : Admit(r) \/ SpawnStream(r) \/ BeginMutation(r) \/ OwnerSteps(r)
        BY <2>1 DEF Requests
      <3>2. UNCHANGED registry /\ \A q \in Request : owners[q] = {} /\ owners'[q] # {} => accepting
        BY <3>1, RequestEffect
      <3> QED
        BY <2>0, <3>2 DEF registry
    <2>2. CASE \E expected \in 0..MaxRevision :
                 \/ \E open \in BOOLEAN : SetAdmission(expected, open)
                 \/ RetireDrained(expected)
      BY <2>2 DEF SetAdmission, RetireDrained
    <2>3. CASE WaiterSteps \/ ShutdownSignal \/ MainSteps \/ ListenerFails
      BY <2>0, <2>3 DEF WaiterSteps, MainSteps, WaitShutdown, WakeUp, BeginShutdown,
         EnableDrained, CheckDrained, AwaitDrained, ShutdownSignal, ListenersEnd,
         DrainMutations, Exit, ListenerFails, registry
    <2> QED
      BY <2>1, <2>2, <2>3 DEF Next
  <1> QED
    BY <1>1, LifecycleInvariant, PTL DEF Spec, ShutdownOnlyDrains
-----------------------------------------------------------------------------
(***************************************************************************)
(* The commands of the executor (RuntimeControl), for any number of        *)
(* evaluations at once.  A proof of readiness, and the opening that took   *)
(* it, are those of the last evaluation that was begun, and no runner      *)
(* connects anew while an opening has a proof in hand: whoever begins an   *)
(* evaluation needs the mutex of the proof, and a connection the lock of   *)
(* the hub.                                                                *)
(***************************************************************************)

InHand ==
  /\ proof # None => proof.token = evaluations
  /\ opener # None => opener.token = evaluations /\ opener.generation = generation

RuntimeInv == LifecycleInv /\ InHand

\* What a step of the runtime does to the registry: nothing, or a command.
LEMMA RuntimeRegistry ==
  ASSUME LifecycleInv, RuntimeNext
  PROVE  \/ Next
         \/ UNCHANGED vars
<1>1. CASE (Requests \/ WaiterSteps \/ ShutdownSignal \/ MainSteps \/ ListenerFails)
           /\ UNCHANGED runtime
  BY <1>1 DEF Next
<1>2. CASE \E e \in Checker :
             \/ ReadinessBegin(e) \/ ReadinessLock(e) \/ ReadinessGenerations(e)
             \/ ReadinessVerify(e) \/ ReadinessStore(e) \/ ReadinessFails(e)
  BY <1>2 DEF ReadinessBegin, ReadinessLock, ReadinessGenerations, ReadinessVerify, ReadinessStore,
     ReadinessFails
<1>3. CASE ReadinessModels \/ ProofExpires \/ Reconnect \/ CloseTake
  BY <1>3 DEF ReadinessModels, ProofExpires, Reconnect, CloseTake
<1>4. CASE \E expected \in 0..MaxRevision :
             \/ \E token \in 1..MaxEvaluations : OpenTake(token, expected)
             \/ CloseSet(expected) \/ Retire(expected)
  <2>1. PICK expected \in 0..MaxRevision :
             \/ \E token \in 1..MaxEvaluations : OpenTake(token, expected)
             \/ CloseSet(expected) \/ Retire(expected)
    BY <1>4
  <2>2. CASE \E token \in 1..MaxEvaluations : OpenTake(token, expected) BY <2>2 DEF OpenTake
  <2>3. CASE CloseSet(expected)
    <3>1. \E open \in BOOLEAN : SetAdmission(expected, open) BY <2>3 DEF CloseSet
    <3> QED BY <3>1 DEF Next
  <2>4. CASE Retire(expected) BY <2>4 DEF Retire, Next
  <2> QED BY <2>1, <2>2, <2>3, <2>4
<1>5. CASE OpenSet
  <2>1. CASE SetAdmission(opener.revision, TRUE)
    <3>1. PICK expected : expected = opener.revision OBVIOUS
    <3>2. SetAdmission(expected, TRUE) BY <2>1, <3>1
    <3>3. expected \in 0..MaxRevision
      BY <3>2 DEF SetAdmission, LifecycleInv, TypeOK
    <3>4. \E open \in BOOLEAN : SetAdmission(expected, open) BY <3>2
    <3> QED BY <3>3, <3>4 DEF Next
  <2> QED BY <1>5, <2>1 DEF OpenSet
<1> QED BY <1>1, <1>2, <1>3, <1>4, <1>5 DEF RuntimeNext

LEMMA InHandStep ==
  ASSUME InHand, [RuntimeNext]_runtimeVars
  PROVE  InHand'
<1>1. CASE UNCHANGED <<proof, opener, evaluations, generation>> BY <1>1 DEF InHand
<1>2. ASSUME NEW e \in Checker, ReadinessLock(e) PROVE InHand'
  BY <1>2 DEF ReadinessLock, InHand, ProofFree, EndCheck
<1>3. ASSUME NEW e \in Checker, ReadinessStore(e) PROVE InHand'
  BY <1>3 DEF ReadinessStore, InHand, ProofFree, EndCheck
<1>4. CASE ReadinessModels BY <1>4 DEF ReadinessModels, InHand, ProofFree
<1>5. CASE ProofExpires
  <2>1. PICK p : p = proof OBVIOUS
  <2> QED BY <1>5, <2>1 DEF ProofExpires, InHand, ProofFree
<1>6. CASE Reconnect BY <1>6 DEF Reconnect, InHand, HubFree
<1>7. ASSUME NEW token, NEW expected, OpenTake(token, expected) PROVE InHand'
  BY <1>7 DEF OpenTake, InHand
<1>8. CASE OpenSet BY <1>8 DEF OpenSet, InHand
<1>9. CASE CloseTake \/ \E expected \in 0..MaxRevision : Retire(expected)
  BY <1>9 DEF CloseTake, Retire, InHand
<1> QED
  BY <1>1, <1>2, <1>3, <1>4, <1>5, <1>6, <1>7, <1>8, <1>9 DEF RuntimeNext, runtimeVars, runtime,
     ReadinessBegin, ReadinessGenerations, ReadinessVerify, ReadinessFails, CloseSet

LEMMA RuntimeStep ==
  ASSUME RuntimeInv, [RuntimeNext]_runtimeVars
  PROVE  RuntimeInv' /\ [Next]_vars
<1>1. [Next]_vars
  BY RuntimeRegistry DEF RuntimeInv, runtimeVars
<1>2. LifecycleInv'
  BY <1>1, LifecycleNextOK DEF RuntimeInv
<1>3. InHand'
  BY InHandStep DEF RuntimeInv
<1> QED
  BY <1>1, <1>2, <1>3 DEF RuntimeInv

\* The strengthened invariant, for any number of readiness requests.
THEOREM RuntimeInvariant == RuntimeSpec => []RuntimeInv
<1>1. RuntimeInit => RuntimeInv
  BY LifecycleInitOK DEF RuntimeInit, RuntimeInv, InHand
<1>2. RuntimeInv /\ [RuntimeNext]_runtimeVars => RuntimeInv'
  BY RuntimeStep
<1> QED
  BY <1>1, <1>2, PTL DEF RuntimeSpec

\* The commands of the executor do to the registry of requests what its own
\* methods allow, so every theorem about the lifecycle holds under them.
THEOREM RuntimeImplements == RuntimeSpec => ImplementsLifecycle
<1>1. RuntimeInit => Init
  BY DEF RuntimeInit
<1>2. RuntimeInv /\ [RuntimeNext]_runtimeVars => [Next]_vars
  BY RuntimeStep
<1> QED
  BY <1>1, <1>2, RuntimeInvariant, PTL DEF RuntimeSpec, ImplementsLifecycle

\* Drain, retirement and exit therefore hold in a process under command.
THEOREM RuntimeDrains == RuntimeSpec => [](DrainedStaysEmpty /\ ExitCutsNothing)
<1>1. LifecycleInv => DrainedStaysEmpty /\ ExitCutsNothing
  BY DEF LifecycleInv, GateOrder, DrainedStaysEmpty, ExitCutsNothing
<1> QED
  BY <1>1, RuntimeInvariant, PTL DEF RuntimeInv

\* Nothing but an opening makes a process accept.
LEMMA OnlyOpeningAccepts ==
  ASSUME RuntimeInv, RuntimeNext, ~accepting, accepting'
  PROVE  OpenSet /\ SetAdmission(opener.revision, TRUE)
<1>1. CASE Requests
  <2>1. PICK r \in Request : Admit(r) \/ SpawnStream(r) \/ BeginMutation(r) \/ OwnerSteps(r)
    BY <1>1 DEF Requests
  <2>2. UNCHANGED registry
    BY <2>1, RequestEffect DEF RuntimeInv
  <2> QED
    BY <2>2 DEF registry
<1>2. CASE WaiterSteps \/ ShutdownSignal \/ MainSteps \/ ListenerFails
  BY <1>2 DEF WaiterSteps, MainSteps, WaitShutdown, WakeUp, BeginShutdown, EnableDrained,
     CheckDrained, AwaitDrained, ShutdownSignal, ListenersEnd, DrainMutations, Exit,
     ListenerFails, registry
<1>3. CASE \E e \in Checker :
             \/ ReadinessBegin(e) \/ ReadinessLock(e) \/ ReadinessGenerations(e)
             \/ ReadinessVerify(e) \/ ReadinessStore(e) \/ ReadinessFails(e)
  BY <1>3 DEF ReadinessBegin, ReadinessLock, ReadinessGenerations, ReadinessVerify,
     ReadinessStore, ReadinessFails, vars
<1>4. CASE ReadinessModels \/ ProofExpires \/ Reconnect \/ CloseTake
  BY <1>4 DEF ReadinessModels, ProofExpires, Reconnect, CloseTake, vars
<1>5. CASE \E expected \in 0..MaxRevision :
             \/ \E token \in 1..MaxEvaluations : OpenTake(token, expected)
             \/ CloseSet(expected) \/ Retire(expected)
  <2>1. ASSUME NEW token, NEW expected, OpenTake(token, expected) PROVE FALSE
    BY <2>1 DEF OpenTake, vars
  <2>2. ASSUME NEW expected, CloseSet(expected) PROVE FALSE
    BY <2>2 DEF CloseSet, SetAdmission
  <2>3. ASSUME NEW expected, Retire(expected) PROVE FALSE
    BY <2>3 DEF Retire, RetireDrained
  <2> QED
    BY <1>5, <2>1, <2>2, <2>3
<1>6. CASE OpenSet
  BY <1>6 DEF OpenSet, vars
<1> QED
  BY <1>1, <1>2, <1>3, <1>4, <1>5, <1>6 DEF RuntimeNext

\* Admission opens only on the word of the last evaluation that was begun, for
\* the revision it opens and over the connection that was probed.
THEOREM RuntimeOpens == RuntimeSpec => OpensOnlyReady
<1> DEFINE Ready == ~accepting /\ accepting' =>
                      /\ opener # None
                      /\ opener.token = evaluations
                      /\ opener.revision = revision
                      /\ opener.generation = generation
<1>1. RuntimeInv /\ [RuntimeNext]_runtimeVars => [Ready]_runtimeVars
  <2> SUFFICES ASSUME RuntimeInv, RuntimeNext, ~accepting, accepting'
               PROVE  /\ opener # None /\ opener.token = evaluations
                      /\ opener.revision = revision /\ opener.generation = generation
    OBVIOUS
  <2>1. OpenSet /\ SetAdmission(opener.revision, TRUE)
    BY OnlyOpeningAccepts
  <2>2. opener # None
    BY <2>1 DEF OpenSet
  <2>3. opener.revision = revision
    BY <2>1 DEF SetAdmission
  <2> QED
    BY <2>2, <2>3 DEF RuntimeInv, InHand
<1> QED
  BY <1>1, RuntimeInvariant, PTL DEF RuntimeSpec, OpensOnlyReady
=============================================================================
