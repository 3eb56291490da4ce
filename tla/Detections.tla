----------------------------- MODULE Detections -----------------------------
(***************************************************************************)
(* What an analysis asks of APS, the service that analyses images, and     *)
(* what it makes of the answer: the detections that a camera's features    *)
(* and the request's options stand for, the capabilities they take, the    *)
(* scene change payload, and the results shown.  Pure definitions.         *)
(***************************************************************************)
EXTENDS Naturals

(***************************************************************************)
(* Features of a camera: the names of those that are on (an advanced rule  *)
(* is named by its kind, any but face and gun being an "alarmRule"), and   *)
(* what vehicleAnalysis looks for in chips.                                *)
(***************************************************************************)
RuleNames == {"faceDetection", "gunDetection", "alarmRule"}

FeatureNames ==
    RuleNames \cup {"vehicleAnalysis", "personAnalysis", "sceneClassification",
                    "multipleRiskAnalysis", "sceneChangeDetection"}

Features == [on : SUBSET FeatureNames, chipsType : {"vehicles", "licensePlates"}]

-----------------------------------------------------------------------------
\* The full-frame detections a feature stands for.  Other rules than that for
\* faces are ignored.
FullFrame ==
    [faceDetection        |-> {"face"},
     vehicleAnalysis      |-> {"vehicle"},
     personAnalysis       |-> {"person"},
     sceneClassification  |-> {"classification"},
     multipleRiskAnalysis |-> {"securityRisks", "environmentalHazards"}]

AlarmDetections(features) ==
    UNION {FullFrame[f] : f \in features.on \cap DOMAIN FullFrame}

\* Chips can be processed for a camera with any advanced rule, although only
\* two of them stand for a type of chip.
ChipsConfigured(features) ==
    features.on \cap (RuleNames \cup {"vehicleAnalysis", "personAnalysis"}) # {}

ChipTypes(features) ==
    LET type == [faceDetection |-> "face", gunDetection |-> "gun",
                 personAnalysis |-> "person",
                 vehicleAnalysis |-> IF features.chipsType = "vehicles"
                                     THEN "vehicle" ELSE "lpr"]
    IN  {type[f] : f \in features.on \cap DOMAIN type}

\* The type to ask for when a camera has this type of chips and the client asks
\* for option: vehicles and their plates stand in for each other.
SelectByOption(type, option) ==
    IF option = "none" THEN {type}
    ELSE {option} \cap (IF type \in {"lpr", "vehicle"} THEN {"lpr", "vehicle"} ELSE {type})

ChipPriority == <<"gun", "face", "person", "lpr", "vehicle">>

SelectByPriority(types) ==
    LET Rank(type) == CHOOSE i \in DOMAIN ChipPriority : ChipPriority[i] = type
    IN  {t \in types : \A u \in types : Rank(t) <= Rank(u)}

ChipDetections(features, option) ==
    SelectByPriority(UNION {SelectByOption(t, option) : t \in ChipTypes(features)})

-----------------------------------------------------------------------------
\* Guns are not checked.
Capability ==
    [person               |-> "PERSON_ANALYTICS",
     vehicle              |-> "VEHICLE_ANALYTICS",
     lpr                  |-> "VEHICLE_ANALYTICS",
     tampering            |-> "DETECT_SCENE_CHANGE",
     face                 |-> "DETECT_FACE",
     classification       |-> "SCENE_CLASSIFICATION",
     securityRisks        |-> "MULTIPLE_RISK_ANALYSIS",
     environmentalHazards |-> "MULTIPLE_RISK_ANALYSIS"]

Required(detections) == {Capability[d] : d \in detections \cap DOMAIN Capability}

\* "Temporary hack": vehicles are not looked for when the scene is classified.
DetectionsForAps(detections) ==
    IF "classification" \in detections THEN detections \ {"vehicle"} ELSE detections

\* The scene change payloads: "noChecks" asks APS to compare the image with
\* references, and the others tell it why it should not.
Payloads == {"none", "noChecks", "skip", "skipPeriod", "skipReferenceImage",
             "companyNotEligible", "viewNotEligible", "notEligible"}

\* The payload of a scene change that the request asks for, or asks not to have
\* done; companyNotEligible has been set when the company lacks the capability.
OnDemandPayload(features, perform, payload) ==
    IF payload = "companyNotEligible" THEN payload
    ELSE IF ~perform THEN "skip"
    ELSE IF "sceneChangeDetection" \notin features.on THEN "viewNotEligible"
    ELSE "noChecks"

-----------------------------------------------------------------------------
(***************************************************************************)
(* An answer of APS: its sections, named after the detections, each valid, *)
(* not valid or failed.                                                    *)
(***************************************************************************)
Outcomes == {"valid", "notValid", "error"}

Risks == {"securityRisks", "environmentalHazards"}

\* The answer is valid as a whole when a section is.
Valid(answer) == \E s \in DOMAIN answer : answer[s] = "valid"

ResultSummary(outcome) ==
    CASE outcome = "error"    -> "not_performed"
      [] outcome = "valid"    -> "valid"
      [] outcome = "notValid" -> "not_valid"

\* Reading the second section before knowing that it is there, as is done when
\* the first one failed, throws; so does reading the first when it is missing.
SummaryThrows(answer) ==
    LET risks == Risks \cap DOMAIN answer
    IN  /\ risks # {}
        /\ "securityRisks" \in risks => answer["securityRisks"] = "error" /\ risks # Risks

\* The summary of the first kind of risk for both.
FirstRiskSummary(answer) ==
    IF "securityRisks" \in DOMAIN answer THEN ResultSummary(answer["securityRisks"])
    ELSE "not_performed"

\* Both kinds of risk share a summary.
RiskSummary(answer) ==
    LET risks == {answer[s] : s \in Risks \cap DOMAIN answer}
    IN  IF risks = {"error"} THEN "not_performed"
        ELSE IF "valid" \in risks THEN "valid" ELSE "not_valid"

\* resultSummaries of a full-frame analysis, and resultSummary.
Summaries(answer) ==
    {ResultSummary(answer[s]) : s \in DOMAIN answer \ Risks}
        \cup (IF Risks \cap DOMAIN answer = {} THEN {} ELSE {RiskSummary(answer)})

Overall(answer) == IF Valid(answer) THEN "valid" ELSE "not_valid"

\* The embeddings a response shows: those of faces always, those of persons and
\* vehicles to a company with the capability, and none with plates.
Embeddings(answer, capabilities) ==
    LET needed == [person |-> "person_embeddings", vehicle |-> "vehicle_embeddings"]
    IN  {needed[s] : s \in DOMAIN answer \cap DOMAIN needed} \cap capabilities
=============================================================================
