----------------------------- MODULE PartsProofs ----------------------------
(***************************************************************************)
(* The parts that share no state, in one device: what the theorems say of  *)
(* each part by itself holds of all of them together, for every instance.  *)
(***************************************************************************)
EXTENDS MCParts, ConfigStoreProofs, NetworkProofs, AppsProofs

(* A step of the device is a step of each part, or leaves it alone.        *)
PartSteps ==
  /\ [Next]_vars /\ [NetNext]_netVars /\ [HootNext]_hootVars /\ [DeskNext]_deskVars
  /\ [LightNext]_lightVars /\ [PomoNext \/ WatchNext]_timerVars /\ [LaneNext]_laneVars
  /\ [LeasesNext]_leaseVars /\ [LogNext]_logVars /\ [SpeakerNext]_speakerVars
  /\ [RecordNext]_recordVars

LEMMA DeviceStep == [MCNext]_MCVars => PartSteps
<1> SUFFICES ASSUME [MCNext]_MCVars PROVE PartSteps
  OBVIOUS
<1>1. CASE UNCHANGED MCVars
  BY <1>1 DEF MCVars, PartSteps
<1>2. CASE StoreStep
  BY <1>2 DEF StoreStep, Rest, PartSteps
<1>3. CASE NetStep
  BY <1>3 DEF NetStep, Rest, PartSteps
<1>4. CASE HootStep
  BY <1>4 DEF HootStep, Rest, PartSteps
<1>5. CASE DeskStep
  BY <1>5 DEF DeskStep, Rest, PartSteps
<1>6. CASE LightStep
  BY <1>6 DEF LightStep, Rest, PartSteps
<1>7. CASE PomodoroStep \/ StopwatchStep
  BY <1>7 DEF PomodoroStep, StopwatchStep, Rest, PartSteps
<1>8. CASE LaneStep
  BY <1>8 DEF LaneStep, Rest, PartSteps
<1>9. CASE LeasesStep
  BY <1>9 DEF LeasesStep, Rest, PartSteps
<1>10. CASE LogStep
  BY <1>10 DEF LogStep, Rest, PartSteps
<1>11. CASE SpeakerStep
  BY <1>11 DEF SpeakerStep, Rest, PartSteps
<1>12. CASE RecordStep
  BY <1>12 DEF RecordStep, Rest, PartSteps
<1> QED
  BY <1>1, <1>2, <1>3, <1>4, <1>5, <1>6, <1>7, <1>8, <1>9, <1>10, <1>11, <1>12
  DEF MCNext, Finished

(* The device runs each part as its own specification has it; the network  *)
(* service without the fairness that only its liveness needs.              *)
LEMMA EachPart ==
  MCSpec => /\ Spec /\ HootSpec /\ DeskSpec /\ LightSpec /\ TimerSpec /\ LaneSpec
            /\ LeasesSpec /\ LogSpec /\ SpeakerSpec /\ RecordSpec
            /\ NetInit /\ [][NetNext]_netVars
<1>1. MCInit => /\ Init /\ NetInit /\ HootInit /\ DeskInit /\ LightInit /\ TimerInit
                /\ LaneInit /\ LeasesInit /\ LogInit /\ SpeakerInit /\ RecordInit
  BY DEF MCInit
<1>2. [MCNext]_MCVars =>
        /\ [Next]_vars /\ [NetNext]_netVars /\ [HootNext]_hootVars /\ [DeskNext]_deskVars
        /\ [LightNext]_lightVars /\ [PomoNext \/ WatchNext]_timerVars /\ [LaneNext]_laneVars
        /\ [LeasesNext]_leaseVars /\ [LogNext]_logVars /\ [SpeakerNext]_speakerVars
        /\ [RecordNext]_recordVars
  BY DeviceStep DEF PartSteps
<1> QED
  BY <1>1, <1>2, PTL
  DEF MCSpec, Spec, HootSpec, DeskSpec, LightSpec, TimerSpec, LaneSpec, LeasesSpec, LogSpec,
      SpeakerSpec, RecordSpec

(* Every variable of every part keeps its type, in a device that runs them *)
(* all, for every value of the constants.                                  *)
THEOREM PartsTypeCorrect == MCSpec => []PartsTypeOK
<1>1. NetInit => NetIInv
  BY InitNetIInv
<1>2. NetIInv /\ [NetNext]_netVars => NetIInv'
  BY NetInvStep
<1>3. NetIInv => NetTypeOK
  BY DEF NetIInv
<1>4. LeasesInv => LeasesTypeOK
  BY DEF LeasesInv
<1>5. /\ TypeOK /\ NetTypeOK /\ HootTypeOK /\ DeskTypeOK /\ LightTypeOK /\ TimerTypeOK
      /\ LaneTypeOK /\ LeasesTypeOK /\ LogTypeOK /\ SpeakerTypeOK /\ RecordTypeOK
      => PartsTypeOK
  BY DEF PartsTypeOK
<1> QED
  BY <1>1, <1>2, <1>3, <1>4, <1>5, EachPart, TypeCorrect, HootTypeCorrect, DeskTypeCorrect,
     LightTypeCorrect, TimerTypeCorrect, LaneTypeCorrect, LeasesInvariant, LogTypeCorrect,
     SpeakerTypeCorrect, RecordTypeCorrect, PTL

(* What the parts promise, the liveness of the network service apart,      *)
(* holds in a device that runs them all, for every instance: the store     *)
(* finds what was saved, requests are owed one answer, the screen has one  *)
(* owner, and so on.                                                       *)
THEOREM PartsAreSafe ==
  MCSpec => /\ [](BootFindsSaved /\ PendingIsOwed /\ GoalsAddUp /\ UnsavedIsDirty
                  /\ ScreenIsOwned /\ LightIsRestored /\ TimersKeepTime /\ AwaitsItsOwn
                  /\ AlbumIsKept /\ SeenIsReported /\ LeasesDiffer /\ LogIsInOrder
                  /\ SoundIsWhole /\ OlderRecordsRead)
            /\ LiveCopySurvives /\ ImplementsCell /\ ResetWasConfirmed /\ LanesAreKept
            /\ TurnsAreTaken /\ CardsAreWhole
<1>1. NetInit => NetIInv
  BY InitNetIInv
<1>2. NetIInv /\ [NetNext]_netVars => NetIInv'
  BY NetInvStep
<1>3. NetIInv => PendingIsOwed
  BY DEF NetIInv
<1> QED
  BY <1>1, <1>2, <1>3, EachPart, Durability, WeekAddsUp, ChangesAreMarked, OneOwner,
     LightComesBack, TimeIsKept, NoStrayAnswer, AlbumKept, SeenWasReported, LeasesNeverShared,
     WarningsInOrder, SoundsAreWhole, OldRecordsAreRead, LiveCopy, Refinement,
     ResetsAreConfirmed, LanesImplemented, TurnsRefinement, AlbumRefinement, PTL

=============================================================================
