---------------------------- MODULE MCServicesApi ----------------------------
(***************************************************************************)
(* ServicesApi for TLC: four services, one of them after the API, and      *)
(* analyses that between them take every branch of the pipeline.           *)
(***************************************************************************)
EXTENDS ServicesApi

ServicesInOrder == <<"DB", "Capabilities", "API", "Prometheus">>

\* A chip of a camera with rules and types to choose from.
Chip ==
    [endpoint |-> "chip", option |-> "vehicle", newRules |-> TRUE, onDemand |-> TRUE,
     perform |-> FALSE, urls |-> TRUE, references |-> FALSE, snapshot |-> TRUE,
     retained |-> TRUE,
     features |-> [on |-> {"gunDetection", "vehicleAnalysis"}, chipsType |-> "licensePlates"]]

\* The option asks for what the camera is not configured for.
WrongChip == [Chip EXCEPT !.option = "person"]

\* The check that Services API decides on: the camera has references.
Alarm ==
    [endpoint |-> "alarm", option |-> "none", newRules |-> FALSE, onDemand |-> FALSE,
     perform |-> FALSE, urls |-> FALSE, references |-> TRUE, snapshot |-> TRUE,
     retained |-> TRUE,
     features |-> [on |-> {"personAnalysis", "sceneChangeDetection"}, chipsType |-> "vehicles"]]

\* Before there is a reference image.
FirstAlarm == [Alarm EXCEPT !.references = FALSE, !.snapshot = FALSE,
                   !.retained = FALSE, !.features.on = {"sceneChangeDetection"}]

\* No scene change, several kinds of risk.
RiskAlarm == [Alarm EXCEPT !.features.on = {"multipleRiskAnalysis"}]

OnDemandAlarm == [Alarm EXCEPT !.onDemand = TRUE, !.perform = TRUE, !.snapshot = FALSE,
                      !.retained = FALSE,
                      !.features.on = {"vehicleAnalysis", "sceneChangeDetection"}]

NotEligibleAlarm == [OnDemandAlarm EXCEPT !.features.on = {"sceneClassification", "vehicleAnalysis"}]

UrlAnalysis == [Alarm EXCEPT !.endpoint = "analysis", !.urls = TRUE, !.retained = FALSE,
                     !.features.on = {"sceneChangeDetection"}]

CONSTANTS r1, r2

\* One request of any kind, next to one that registers what it finds.
Kinds == [r1 |-> {Chip, WrongChip, FirstAlarm, RiskAlarm,
                  OnDemandAlarm, NotEligibleAlarm, UrlAnalysis},
          r2 |-> {[Alarm EXCEPT !.retained = FALSE, !.snapshot = FALSE]}]

WorkloadOfBoth == [r \in {r1, r2} |-> IF r = r1 THEN Kinds.r1 ELSE Kinds.r2]

Full == {"PERSON_ANALYTICS", "person_embeddings", "VEHICLE_ANALYTICS", "DETECT_SCENE_CHANGE",
         "DETECT_FACE", "SCENE_CLASSIFICATION", "MULTIPLE_RISK_ANALYSIS"}

CapabilitySets == {Full, {"VEHICLE_ANALYTICS", "vehicle_embeddings"}}
=============================================================================
