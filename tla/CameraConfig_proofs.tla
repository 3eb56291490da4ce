------------------------ MODULE CameraConfig_proofs ------------------------
(***************************************************************************)
(* Proofs about CameraConfig, for any set of requests, columns and values  *)
(* and however far the replica lags.                                       *)
(***************************************************************************)
EXTENDS CameraConfig, VersionLemmas

-----------------------------------------------------------------------------
\* Both ends of a non-empty sequence of rows are rows.
LEMMA EndsAreRows ==
    ASSUME versions \in Seq(Row), versions # <<>>
    PROVE  Master \in Row /\ Replica \in Row
<1>1. Len(versions) \in Nat /\ Len(versions) # 0
  BY EmptySeq
<1>2. Len(versions) \in 1 .. Len(versions) /\ 1 \in 1 .. Len(versions)
  BY <1>1
<1>3. QED
  BY <1>2, ElementOfSeq DEF Master, Replica

-----------------------------------------------------------------------------
(***************************************************************************)
(* The values the handlers build.                                          *)
(***************************************************************************)

LEMMA DataType ==
    ASSUME NEW row \in Row
    PROVE  Data(row) \in CameraData /\ Data(row).tc = row.tc
BY DEF Data, Row, CameraData

\* A completed tampering config has the reference it was completed with, and
\* the other mode's as it was.
LEMMA WithRefProperties ==
    ASSUME NEW tc \in Tampering, NEW m \in Modes, NEW r \in Requests
    PROVE  /\ WithRef(tc, m, r) \in Tampering
           /\ HasRef(WithRef(tc, m, r), m)
           /\ WithRef(tc, m, r)[m].at = r
           /\ \A n \in Modes \ {m} : WithRef(tc, m, r)[n] = tc[n]
<1>1. r # None /\ r \in Authors
  BY ConfigAssumption DEF Authors
<1>2. QED
  BY <1>1 DEF WithRef, HasRef, Tampering, Ref

LEMMA UpdatedRowType ==
    ASSUME Master \in Row, NEW r \in Requests, arg[r] \in CameraData
    PROVE  UpdatedRow(r) \in Row
<1>1. UpdatedConfig(r) \in Configs
  BY DEF UpdatedConfig, Row, CameraData, Configs
<1>2. UpdatedAnalytics(r) \in SUBSET Authors
  BY DEF UpdatedAnalytics, Row, Authors
<1>3. UpdatedSnapshot(r) \in BOOLEAN
  BY DEF UpdatedSnapshot, Row
<1>4. QED
  BY <1>1, <1>2, <1>3 DEF UpdatedRow, Row, CameraData
-----------------------------------------------------------------------------
(***************************************************************************)
(* Type correctness.  TypeOK is not inductive: Upload stores the id of the *)
(* reference image a request is saving, which is an image's id because     *)
(* whoever starts an upload has completed the tampering config for it.     *)
(***************************************************************************)

\* A request at its upload has a mode, and a reference for that mode.
UploadHasRef ==
    \A r \in Requests :
        pc[r] = "upload" => mode[r] \in Modes /\ HasRef(arg[r].tc, mode[r])

TypeInv == TypeOK /\ UploadHasRef

LEMMA InitTypeInv == Init => TypeInv
<1> SUFFICES ASSUME Init PROVE TypeInv
  OBVIOUS
<1>1. PICK c \in Configs, tc \in [Modes -> {NoRef, [id |-> Earlier, at |-> Earlier]}],
           s \in BOOLEAN :
        LET created == [live |-> TRUE, config |-> c, tc |-> tc,
                        analytics |-> {Earlier}, snapshot |-> s]
        IN  /\ versions \in
                 {<<created>>,
                  <<[created EXCEPT !.live = FALSE, !.analytics = {}], created>>}
            /\ images = {tc[m].id : m \in Modes} \ {None}
            /\ arg = [r \in Requests |-> Data(created)]
  BY DEF Init
<1> DEFINE created == [live |-> TRUE, config |-> c, tc |-> tc,
                       analytics |-> {Earlier}, snapshot |-> s]
           before == [created EXCEPT !.live = FALSE, !.analytics = {}]
<1>2. tc \in Tampering
  BY DEF Tampering, Ref, NoRef, Authors
<1>3. created \in Row /\ before \in Row
  BY <1>2 DEF Row, Authors
<1>4. versions \in Seq(Row) /\ versions # <<>>
  <2> HIDE DEF created, before
  <2>1. versions = <<created>> \/ versions = <<before, created>>
    BY <1>1 DEF created, before
  <2>2. Len(versions) # Len(<<>>)
    BY <2>1
  <2>3. <<created>> \in Seq(Row) /\ <<before, created>> \in Seq(Row)
    BY <1>3, ShortSeqs
  <2>4. QED
    BY <2>1, <2>2, <2>3
<1>5. images \subseteq Authors
  BY <1>1 DEF NoRef, Authors
<1>6. arg \in [Requests -> CameraData]
  <2>1. Data(created) \in CameraData
    BY <1>3, DataType
  <2>2. QED
    BY <1>1, <2>1
<1>7. QED
  BY <1>4, <1>5, <1>6 DEF Init, TypeInv, TypeOK, UploadHasRef, Locations

(***************************************************************************)
(* A step of one request changes what that request holds and nobody        *)
(* else's; what it is and what it follows are settled when it arrives.     *)
(***************************************************************************)
LEMMA StepOfOne ==
    ASSUME TypeOK, NEW r \in Requests, Step(r)
    PROVE  /\ \A x \in Requests \ {r} :
                /\ kind'[x] = kind[x] /\ pc'[x] = pc[x] /\ arg'[x] = arg[x]
                /\ mode'[x] = mode[x] /\ modified'[x] = modified[x]
                /\ rows'[x] = rows[x] /\ reply'[x] = reply[x] /\ seen'[x] = seen[x]
           /\ pc[r] # "done" /\ pc'[r] # "idle"
           /\ pc[r] # "idle" => kind'[r] = kind[r] /\ seen'[r] = seen[r]
           /\ pc[r] = "idle" => seen'[r] = Finished
<1> USE DEF TypeOK
<1>1. CASE StartPut(r)
  BY <1>1 DEF StartPut, Arrive, Answer, Goto, store, ghosts
<1>2. CASE StartRef(r)
  BY <1>2 DEF StartRef, Arrive, Answer, Goto, store, ghosts
<1>3. CASE StartAlarm(r)
  BY <1>3 DEF StartAlarm, Arrive, Answer, Goto, store, ghosts
<1>4. CASE StartDelete(r)
  BY <1>4 DEF StartDelete, Arrive, Answer, Goto, store, ghosts
<1>5. CASE SkipScene(r)
  BY <1>5 DEF SkipScene, Goto, store, ghosts
<1>6. CASE SaveScene(r)
  BY <1>6 DEF SaveScene, Goto, store, ghosts
<1>7. CASE Upload(r)
  BY <1>7 DEF Upload, Goto, store, ghosts
<1>8. CASE FailUpload(r)
  BY <1>8 DEF FailUpload, Goto, Answer, store, ghosts
<1>9. CASE FindView(r)
  BY <1>9 DEF FindView, Goto, Conclude, Answer, store, ghosts
<1>10. CASE ReadAnalytics(r)
  BY <1>10 DEF ReadAnalytics, Goto, store, ghosts
<1>11. CASE CommitUpdate(r)
  BY <1>11 DEF CommitUpdate, Conclude, Goto, Answer, store, ghosts
<1>12. CASE Rollback(r)
  BY <1>12 DEF Rollback, Conclude, Goto, Answer, store, ghosts
<1>13. CASE EndAnalysis(r)
  BY <1>13 DEF EndAnalysis, Goto, Answer, store, ghosts
<1>14. CASE CommitDelete(r)
  BY <1>14 DEF CommitDelete, Goto, store, ghosts
<1>15. CASE CleanImages(r)
  BY <1>15 DEF CleanImages, Answer, Goto, store, ghosts
<1>16. QED
  BY <1>1, <1>2, <1>3, <1>4, <1>5, <1>6, <1>7, <1>8, <1>9, <1>10, <1>11, <1>12, <1>13, <1>14, <1>15
  DEF Step

(***************************************************************************)
(* The types of what Arrive, Goto, Answer and Conclude write.              *)
(***************************************************************************)
LEMMA ArriveType ==
    ASSUME TypeOK, NEW r \in Requests, NEW k, Arrive(r, k)
    PROVE  /\ kind' \in [Requests -> Kinds \cup {"none"}]
           /\ seen' \in [Requests -> SUBSET Requests]
BY DEF TypeOK, Arrive, Finished

LEMMA GotoType ==
    ASSUME TypeOK, NEW r \in Requests, NEW where \in Locations, Goto(r, where)
    PROVE  pc' \in [Requests -> Locations] /\ pc'[r] = where
BY DEF TypeOK, Goto

LEMMA AnswerType ==
    ASSUME TypeOK, NEW r \in Requests, NEW what \in {"ok", "error"}, Answer(r, what)
    PROVE  /\ pc' \in [Requests -> Locations] /\ pc'[r] = "done"
           /\ reply' \in [Requests -> {"none", "ok", "error"}]
BY GotoType DEF TypeOK, Answer, Locations

LEMMA ConcludeType ==
    ASSUME TypeOK, NEW r \in Requests, NEW what \in {"ok", "error"}, Conclude(r, what)
    PROVE  /\ pc' \in [Requests -> Locations] /\ pc'[r] \in {"analysed", "done"}
           /\ reply' \in [Requests -> {"none", "ok", "error"}]
           /\ mode' \in [Requests -> Modes \cup {"none"}]
           /\ modified' \in [Requests -> SUBSET Fields]
           /\ rows' \in [Requests -> SUBSET Authors]
<1>1. /\ mode' \in [Requests -> Modes \cup {"none"}]
      /\ modified' \in [Requests -> SUBSET Fields]
      /\ rows' \in [Requests -> SUBSET Authors]
  BY DEF TypeOK, Conclude
<1>2. CASE kind[r] = "alarm"
  BY <1>1, <1>2, GotoType DEF TypeOK, Conclude, Locations
<1>3. CASE kind[r] # "alarm"
  BY <1>1, <1>3, AnswerType DEF Conclude
<1>4. QED
  BY <1>2, <1>3

LEMMA NextTypeOK == TypeInv /\ [Next]_vars => TypeOK'
<1> SUFFICES ASSUME TypeInv, [Next]_vars PROVE TypeOK'
  OBVIOUS
<1> USE DEF TypeInv
<1>1. Master \in Row /\ Replica \in Row
  BY EndsAreRows DEF TypeOK
<1>2. CASE UNCHANGED vars
  BY <1>2 DEF TypeOK, vars
<1>3. CASE Replicate
  BY <1>3, ReplicateVersion DEF Replicate, TypeOK, ghosts
<1>4. ASSUME NEW r \in Requests, Step(r) PROVE TypeOK'
  <2>1. CASE StartPut(r)
    <3>1. PICK c \in Configs, a \in BOOLEAN :
            arg' = [arg EXCEPT ![r] = [@ EXCEPT !.config = c, !.analytics = a]]
      BY <2>1 DEF StartPut
    <3>2. arg' \in [Requests -> CameraData]
      <4> DEFINE sent == [arg[r] EXCEPT !.config = c]
      <4>1. sent \in CameraData
        BY DEF TypeOK, CameraData
      <4> HIDE DEF sent
      <4>2. [sent EXCEPT !.analytics = a] \in CameraData
        BY <4>1 DEF CameraData
      <4>3. QED
        BY <3>1, <4>2 DEF sent, TypeOK
    <3>3. pc' \in [Requests -> Locations] /\ reply' \in [Requests -> {"none", "ok", "error"}]
      BY <2>1, GotoType, AnswerType DEF StartPut, TypeOK, Locations
    <3>4. QED
      BY <2>1, <3>2, <3>3, ArriveType DEF StartPut, TypeOK, store
  <2>2. CASE StartRef(r)
    <3>1. PICK m \in Modes :
            /\ mode' = [mode EXCEPT ![r] = m]
            /\ \/ arg' = arg
               \/ arg' = [arg EXCEPT ![r] = [Data(Master) EXCEPT !.tc = WithRef(@, m, r)]]
      BY <2>2 DEF StartRef, RowToUpdate
    <3>2. WithRef(Data(Master).tc, m, r) \in Tampering
      BY <1>1, DataType, WithRefProperties DEF CameraData
    <3>3. [Data(Master) EXCEPT !.tc = WithRef(@, m, r)] \in CameraData
      BY <1>1, <3>2, DataType DEF CameraData
    <3>4. arg' \in [Requests -> CameraData] /\ mode' \in [Requests -> Modes \cup {"none"}]
      BY <3>1, <3>3 DEF TypeOK
    <3>5. pc' \in [Requests -> Locations] /\ reply' \in [Requests -> {"none", "ok", "error"}]
      BY <2>2, GotoType, AnswerType DEF StartRef, TypeOK, Locations
    <3>6. QED
      BY <2>2, <3>4, <3>5, ArriveType DEF StartRef, TypeOK, store
  <2>3. CASE StartAlarm(r)
    <3>1. pc' \in [Requests -> Locations] /\ reply' \in [Requests -> {"none", "ok", "error"}]
      BY <2>3, GotoType, AnswerType DEF StartAlarm, TypeOK, Locations
    <3>2. arg' \in [Requests -> CameraData]
      BY <2>3, <1>1, DataType DEF StartAlarm, TypeOK
    <3>3. QED
      BY <2>3, <3>1, <3>2, ArriveType DEF StartAlarm, TypeOK, store
  <2>4. CASE StartDelete(r)
    <3>1. pc' \in [Requests -> Locations] /\ reply' \in [Requests -> {"none", "ok", "error"}]
      BY <2>4, GotoType, AnswerType DEF StartDelete, TypeOK, Locations
    <3>2. arg' \in [Requests -> CameraData]
      BY <2>4, <1>1, DataType DEF StartDelete, TypeOK
    <3>3. QED
      BY <2>4, <3>1, <3>2, ArriveType DEF StartDelete, TypeOK, store
  <2>5. CASE SkipScene(r)
    BY <2>5, GotoType DEF SkipScene, TypeOK, Locations, store, ghosts
  <2>6. CASE SaveScene(r)
    <3>1. PICK m \in Modes :
            /\ mode' = [mode EXCEPT ![r] = m]
            /\ arg' = [arg EXCEPT ![r].tc = WithRef(arg[r].tc, m, r)]
      BY <2>6 DEF SaveScene, Modes
    <3>2. WithRef(arg[r].tc, m, r) \in Tampering
      BY WithRefProperties DEF TypeOK, CameraData
    <3>3. arg' \in [Requests -> CameraData] /\ mode' \in [Requests -> Modes \cup {"none"}]
      BY <3>1, <3>2 DEF TypeOK, CameraData
    <3>4. pc' \in [Requests -> Locations]
      BY <2>6, GotoType DEF SaveScene, Locations
    <3>5. QED
      BY <2>6, <3>3, <3>4 DEF SaveScene, TypeOK, store, ghosts
  <2>7. CASE Upload(r)
    <3>1. arg[r].tc[mode[r]].id \in Authors
      BY <2>7 DEF Upload, UploadHasRef, HasRef, TypeOK, CameraData, Tampering, Ref
    <3>2. pc' \in [Requests -> Locations]
      BY <2>7, GotoType DEF Upload, Locations
    <3>3. QED
      BY <2>7, <3>1, <3>2 DEF Upload, TypeOK, ghosts
  <2>8. CASE FailUpload(r)
    <3>1. pc' \in [Requests -> Locations] /\ reply' \in [Requests -> {"none", "ok", "error"}]
      BY <2>8, GotoType, AnswerType DEF FailUpload, TypeOK, Locations
    <3>2. QED
      BY <2>8, <3>1 DEF FailUpload, TypeOK, store, ghosts
  <2>9. CASE FindView(r)
    <3>1. CASE Replica.live
      <4>1. pc' \in [Requests -> Locations]
        BY <2>9, <3>1, GotoType DEF FindView, Locations
      <4>2. modified' \in [Requests -> SUBSET Fields] /\ fresh' \subseteq Requests
        BY <2>9, <3>1 DEF FindView, TypeOK, Differing
      <4>3. QED
        BY <2>9, <3>1, <4>1, <4>2 DEF FindView, TypeOK, store
    <3>2. CASE ~Replica.live
      <4>1. PICK what \in {"ok", "error"} : Conclude(r, what)
        BY <2>9, <3>2 DEF FindView
      <4>2. QED
        BY <2>9, <3>2, <4>1, ConcludeType DEF FindView, TypeOK, store
    <3>3. QED
      BY <3>1, <3>2
  <2>10. CASE ReadAnalytics(r)
    <3>1. pc' \in [Requests -> Locations]
      BY <2>10, GotoType DEF ReadAnalytics, Locations
    <3>2. rows' \in [Requests -> SUBSET Authors]
      BY <2>10, <1>1 DEF ReadAnalytics, AnalyticsToDelete, TypeOK, Row
    <3>3. QED
      BY <2>10, <3>1, <3>2 DEF ReadAnalytics, TypeOK, store, ghosts
  <2>11. CASE CommitUpdate(r)
    <3>1. UpdatedRow(r) \in Row
      BY <1>1, UpdatedRowType DEF TypeOK
    <3>2. versions' \in Seq(Row) /\ versions' # <<>>
      BY <2>11, <3>1, CommitVersion DEF CommitUpdate, TypeOK
    <3>3. QED
      BY <2>11, <3>2, ConcludeType DEF CommitUpdate, TypeOK
  <2>12. CASE Rollback(r)
    BY <2>12, ConcludeType DEF Rollback, TypeOK, store, ghosts
  <2>13. CASE EndAnalysis(r)
    <3>1. pc' \in [Requests -> Locations] /\ reply' \in [Requests -> {"none", "ok", "error"}]
      <4>1. CASE Answer(r, "error")
        BY <4>1, AnswerType
      <4>2. CASE /\ reply' = [reply EXCEPT ![r] = "ok"]
                 /\ Goto(r, IF arg[r].snapshot THEN "find" ELSE "done")
        BY <4>2, GotoType DEF TypeOK, Locations
      <4>3. QED
        BY <2>13, <4>1, <4>2 DEF EndAnalysis
    <3>2. QED
      BY <2>13, <3>1 DEF EndAnalysis, TypeOK, store, ghosts
  <2>14. CASE CommitDelete(r)
    <3>1. [Master EXCEPT !.live = FALSE, !.analytics = @ \ rows[r]] \in Row
      BY <1>1 DEF Row
    <3>2. versions' \in Seq(Row) /\ versions' # <<>>
      BY <2>14, <3>1, CommitVersion DEF CommitDelete, TypeOK
    <3>3. pc' \in [Requests -> Locations]
      BY <2>14, GotoType DEF CommitDelete, Locations
    <3>4. QED
      BY <2>14, <3>2, <3>3 DEF CommitDelete, TypeOK
  <2>15. CASE CleanImages(r)
    <3>1. pc' \in [Requests -> Locations] /\ reply' \in [Requests -> {"none", "ok", "error"}]
      BY <2>15, AnswerType DEF CleanImages
    <3>2. images' \subseteq Authors
      BY <2>15 DEF CleanImages, TypeOK
    <3>3. QED
      BY <2>15, <3>1, <3>2 DEF CleanImages, TypeOK, ghosts
  <2>16. QED
    BY <1>4, <2>1, <2>2, <2>3, <2>4, <2>5, <2>6, <2>7, <2>8, <2>9, <2>10, <2>11, <2>12,
       <2>13, <2>14, <2>15 DEF Step
<1>5. QED
  BY <1>2, <1>3, <1>4 DEF Next

LEMMA NextUploadHasRef == TypeInv /\ [Next]_vars => UploadHasRef'
<1> SUFFICES ASSUME TypeInv, [Next]_vars PROVE UploadHasRef'
  OBVIOUS
<1> USE DEF TypeInv
<1>1. CASE UNCHANGED vars
  BY <1>1 DEF UploadHasRef, vars
<1>2. CASE Replicate
  BY <1>2 DEF Replicate, UploadHasRef
<1>3. ASSUME NEW r \in Requests, Step(r) PROVE UploadHasRef'
  <2>1. pc'[r] = "upload" => mode'[r] \in Modes /\ HasRef(arg'[r].tc, mode'[r])
    <3>1. CASE StartRef(r) /\ pc'[r] = "upload"
      <4>1. PICK m \in Modes :
              /\ mode' = [mode EXCEPT ![r] = m]
              /\ arg' = [arg EXCEPT ![r] = [Data(Master) EXCEPT !.tc = WithRef(@, m, r)]]
        <5>1. ~Answer(r, "error")
          BY <3>1 DEF Answer, Goto, TypeOK
        <5>2. QED
          BY <3>1, <5>1 DEF StartRef, RowToUpdate
      <4>2. Master \in Row
        BY EndsAreRows DEF TypeOK
      <4>3. Data(Master).tc \in Tampering
        BY <4>2, DataType DEF CameraData
      <4>4. HasRef(WithRef(Data(Master).tc, m, r), m)
        BY <4>3, WithRefProperties
      <4>5. arg'[r].tc = WithRef(Data(Master).tc, m, r) /\ mode'[r] = m
        BY <4>1, <4>2, DataType DEF TypeOK, CameraData
      <4>6. QED
        BY <4>4, <4>5
    <3>2. CASE SaveScene(r)
      <4>1. PICK m \in Modes :
              /\ mode' = [mode EXCEPT ![r] = m]
              /\ arg' = [arg EXCEPT ![r].tc = WithRef(arg[r].tc, m, r)]
        BY <3>2 DEF SaveScene, Modes
      <4>2. HasRef(WithRef(arg[r].tc, m, r), m)
        BY WithRefProperties DEF TypeOK, CameraData
      <4>3. arg'[r].tc = WithRef(arg[r].tc, m, r) /\ mode'[r] = m
        BY <4>1 DEF TypeOK, CameraData
      <4>4. QED
        BY <4>2, <4>3
    <3>3. CASE ~StartRef(r) /\ ~SaveScene(r)
      BY <1>3, <3>3 DEF Step, StartPut, StartAlarm, StartDelete, SkipScene, Upload, FailUpload,
        FindView, ReadAnalytics, CommitUpdate, Rollback, EndAnalysis, CommitDelete, CleanImages,
        Goto, Answer, Conclude, TypeOK
    <3>4. QED
      BY <3>1, <3>2, <3>3
  <2>2. QED
    BY <1>3, <2>1, StepOfOne DEF UploadHasRef
<1>4. QED
  BY <1>1, <1>2, <1>3 DEF Next

LEMMA TypeInvariance == Spec => []TypeInv
<1>1. TypeInv /\ [Next]_vars => TypeInv'
  BY NextTypeOK, NextUploadHasRef DEF TypeInv
<1>2. QED
  BY InitTypeInv, <1>1, PTL DEF Spec

\* Every variable keeps its type in every execution; in particular only ids of
\* images are ever uploaded to S3, and the replica always shows some version.
THEOREM TypeCorrect == Spec => []TypeOK
<1>1. TypeInv => TypeOK
  BY DEF TypeInv
<1>2. QED
  BY <1>1, TypeInvariance, PTL

-----------------------------------------------------------------------------
(***************************************************************************)
(* Reference images that PUTs record.  The invariant relates the tampering *)
(* config a PUT carries to the writer's: what the PUT read from the master *)
(* names every reference recorded before it arrived, and whatever changes  *)
(* the row between its read and its commit overlaps with it.               *)
(***************************************************************************)

\* What came before a request stays finished.
SeenFinished == \A a, b \in Requests : a \in seen[b] => pc[a] = "done"

\* A PUT of a reference image goes from the upload to the answer.
RefPath ==
    \A r \in Requests :
        kind[r] = "ref" => pc[r] \in {"upload", "find", "analytics", "commit", "done"}

\* A request that reached the row has arrived, for a mode if it is a PUT of a
\* reference image.
SavedArrived ==
    \A q \in saved : pc[q] # "idle" /\ (kind[q] = "ref" => mode[q] \in Modes)

\* The tampering config a PUT is about to write has its own image and every
\* image recorded before it, for the other mode, that nothing may replace.
CarriesReferences ==
    \A r \in Requests :
        kind[r] = "ref" /\ pc[r] # "done" =>
            /\ mode[r] \in Modes
            /\ arg[r].tc[mode[r]].at = r
            /\ \A q \in saved \cap seen[r] :
                  kind[q] = "ref" /\ mode[q] # mode[r] =>
                      arg[r].tc[mode[q]].at = q \/ Replaceable(q)

SerialInv ==
    /\ TypeInv /\ SeenFinished /\ RefPath /\ SavedArrived /\ CarriesReferences
    /\ SerialReferencesKept

\* The writer's tampering config changes only in a commit of a request that
\* saves a reference image, and then to what that request carries.
LEMMA SaveOrKeep ==
    ASSUME TypeInv, NEW r \in Requests, Step(r)
    PROVE  \/ /\ pc[r] = "commit" /\ mode[r] # "none"
              /\ saved' = saved \cup {r}
              /\ Master'.live /\ Master'.tc = arg[r].tc
           \/ /\ saved' = saved
              /\ Master'.live => Master.live /\ Master'.tc = Master.tc
<1> USE DEF TypeInv
<1>1. Master \in Row
  BY EndsAreRows DEF TypeOK
<1>2. CASE CommitUpdate(r)
  <2>1. UpdatedRow(r) \in Row
    BY <1>1, UpdatedRowType DEF TypeOK
  <2>2. Master' = UpdatedRow(r)
    BY <1>2, <2>1, CommitVersion DEF CommitUpdate, TypeOK, Master
  <2>3. /\ Master'.live = Master.live
        /\ Master.live => Master'.tc = IF mode[r] = "none" THEN Master.tc ELSE arg[r].tc
    BY <1>1, <2>2 DEF UpdatedRow, Row
  <2>4. QED
    BY <1>2, <2>3 DEF CommitUpdate
<1>3. CASE CommitDelete(r)
  <2>1. [Master EXCEPT !.live = FALSE, !.analytics = @ \ rows[r]] \in Row
    BY <1>1 DEF Row
  <2>2. Master' = [Master EXCEPT !.live = FALSE, !.analytics = @ \ rows[r]]
    BY <1>3, <2>1, CommitVersion DEF CommitDelete, TypeOK, Master
  <2>3. ~Master'.live
    BY <1>1, <2>2 DEF Row
  <2>4. QED
    BY <1>3, <2>3 DEF CommitDelete
<1>4. CASE ~CommitUpdate(r) /\ ~CommitDelete(r)
  <2>1. UNCHANGED <<versions, saved>>
    BY <1>4 DEF Step, StartPut, StartRef, StartAlarm, StartDelete, SkipScene, SaveScene, Upload,
      FailUpload, FindView, ReadAnalytics, Rollback, EndAnalysis, CleanImages, store, ghosts
  <2>2. QED
    BY <2>1 DEF Master
<1>5. QED
  BY <1>2, <1>3, <1>4

\* Once it has read the camera, a PUT of a reference image changes neither its
\* mode nor the tampering config it carries.
LEMMA RefKeepsData ==
    ASSUME TypeInv, RefPath, NEW r \in Requests, Step(r), kind[r] = "ref"
    PROVE  arg'[r] = arg[r] /\ mode'[r] = mode[r] /\ kind'[r] = kind[r] /\ seen'[r] = seen[r]
BY StepOfOne DEF TypeInv, TypeOK, RefPath, Step, StartPut, StartRef, StartAlarm, StartDelete,
  SkipScene, SaveScene, Upload, FailUpload, FindView, ReadAnalytics, CommitUpdate, Rollback,
  EndAnalysis, CommitDelete, CleanImages, Arrive, Conclude, ghosts

\* What MayReplace says of requests that reached the row stays true.
LEMMA ReplaceableStays ==
    ASSUME SerialInv, NEW r \in Requests, Step(r),
           NEW q \in saved, kind[q] = "ref", Replaceable(q)
    PROVE  Replaceable(q)'
<1>1. saved \subseteq saved' /\ saved \subseteq Requests
  BY SaveOrKeep DEF SerialInv, TypeInv, TypeOK
<1>2. PICK p \in saved \ {q} : MayReplace(p, q)
  BY DEF Replaceable
<1>3. ASSUME NEW x \in saved
      PROVE  /\ kind'[x] = kind[x] /\ seen'[x] = seen[x]
             /\ kind[x] = "ref" => mode'[x] = mode[x]
  BY <1>1, StepOfOne, RefKeepsData DEF SerialInv, TypeInv, SavedArrived
<1>4. MayReplace(p, q)'
  BY <1>2, <1>3 DEF MayReplace, Overlap, Before
<1>5. QED
  BY <1>1, <1>2, <1>4 DEF Replaceable

LEMMA InitSerialInv == Init => SerialInv
<1> SUFFICES ASSUME Init PROVE SerialInv
  OBVIOUS
<1>1. kind = [r \in Requests |-> "none"] /\ seen = [r \in Requests |-> {}] /\ saved = {}
  BY DEF Init
<1>2. QED
  BY <1>1, InitTypeInv DEF SerialInv, SeenFinished, RefPath, SavedArrived, CarriesReferences,
    SerialReferencesKept

LEMMA StepSeenFinished ==
    ASSUME TypeOK, SeenFinished, NEW r \in Requests, Step(r)
    PROVE  SeenFinished'
<1> SUFFICES ASSUME NEW a \in Requests, NEW b \in Requests, a \in seen'[b]
             PROVE  pc'[a] = "done"
  BY DEF SeenFinished
<1>1. pc[a] = "done"
  BY StepOfOne DEF SeenFinished, Finished
<1>2. QED
  BY <1>1, StepOfOne

LEMMA StepRefPath ==
    ASSUME TypeOK, RefPath, NEW r \in Requests, Step(r)
    PROVE  RefPath'
<1>1. kind'[r] = "ref" => pc'[r] \in {"upload", "find", "analytics", "commit", "done"}
  <2>1. CASE StartRef(r)
    BY <2>1 DEF StartRef, Goto, Answer, TypeOK
  <2>2. CASE StartPut(r) \/ StartAlarm(r) \/ StartDelete(r)
    BY <2>2 DEF StartPut, StartAlarm, StartDelete, Arrive, TypeOK
  <2>3. CASE Upload(r) \/ FailUpload(r) \/ FindView(r) \/ ReadAnalytics(r)
    BY <2>3 DEF Upload, FailUpload, FindView, ReadAnalytics, Goto, Answer, Conclude, TypeOK
  <2>4. CASE CommitUpdate(r) \/ Rollback(r)
    BY <2>4 DEF CommitUpdate, Rollback, Goto, Answer, Conclude, TypeOK
  <2>5. CASE SkipScene(r) \/ SaveScene(r) \/ EndAnalysis(r) \/ CommitDelete(r) \/ CleanImages(r)
    BY <2>5 DEF SkipScene, SaveScene, EndAnalysis, CommitDelete, CleanImages, Goto, Answer,
      RefPath, TypeOK, ghosts
  <2>6. QED
    BY <2>1, <2>2, <2>3, <2>4, <2>5 DEF Step
<1>2. QED
  BY <1>1, StepOfOne DEF RefPath

LEMMA StepSavedArrived ==
    ASSUME SerialInv, NEW r \in Requests, Step(r)
    PROVE  SavedArrived'
<1> SUFFICES ASSUME NEW q \in saved'
             PROVE  pc'[q] # "idle" /\ (kind'[q] = "ref" => mode'[q] \in Modes)
  BY DEF SavedArrived
<1>1. q \in saved \/ q = r
  BY SaveOrKeep DEF SerialInv
<1>2. CASE q # r
  BY <1>1, <1>2, StepOfOne DEF SerialInv, TypeInv, TypeOK, SavedArrived
<1>3. CASE q = r
  <2>1. pc[r] # "idle" /\ (kind[r] = "ref" => mode[r] \in Modes)
    BY <1>3, SaveOrKeep DEF SerialInv, TypeInv, TypeOK, SavedArrived
  <2>2. QED
    BY <1>3, <2>1, StepOfOne, RefKeepsData DEF SerialInv, TypeInv
<1>4. QED
  BY <1>2, <1>3

\* A PUT that reads the camera from the master finds there what
\* SerialReferencesKept promises.
LEMMA StartCarriesReferences ==
    ASSUME SerialInv, NEW r \in Requests, StartRef(r), pc'[r] # "done"
    PROVE  /\ mode'[r] \in Modes
           /\ arg'[r].tc[mode'[r]].at = r
           /\ \A q \in saved :
                 kind[q] = "ref" /\ mode[q] # mode'[r] =>
                     arg'[r].tc[mode[q]].at = q \/ Replaceable(q)
<1> USE DEF SerialInv, TypeInv
<1>1. Master \in Row
  BY EndsAreRows DEF TypeOK
<1>2. ~Answer(r, "error")
  BY DEF Answer, Goto, TypeOK
<1>3. PICK m \in Modes :
        /\ mode' = [mode EXCEPT ![r] = m]
        /\ Master.live
        /\ arg' = [arg EXCEPT ![r] = [Data(Master) EXCEPT !.tc = WithRef(@, m, r)]]
  BY <1>2 DEF StartRef, RowToUpdate
<1>4. arg'[r].tc = WithRef(Master.tc, m, r) /\ mode'[r] = m
  BY <1>1, <1>3, DataType DEF TypeOK, CameraData
<1>5. /\ WithRef(Master.tc, m, r)[m].at = r
      /\ \A n \in Modes \ {m} : WithRef(Master.tc, m, r)[n] = Master.tc[n]
  BY <1>1, WithRefProperties DEF Row
<1>6. \A q \in saved : kind[q] = "ref" => Master.tc[mode[q]].at = q \/ Replaceable(q)
  BY <1>3 DEF SerialReferencesKept
<1>7. QED
  BY <1>4, <1>5, <1>6 DEF SavedArrived

LEMMA StepCarriesReferences ==
    ASSUME SerialInv, NEW r \in Requests, Step(r)
    PROVE  CarriesReferences'
<1> USE DEF SerialInv, TypeInv
<1> SUFFICES ASSUME NEW x \in Requests, kind'[x] = "ref", pc'[x] # "done"
             PROVE  /\ mode'[x] \in Modes
                    /\ arg'[x].tc[mode'[x]].at = x
                    /\ \A q \in saved' \cap seen'[x] :
                          kind'[q] = "ref" /\ mode'[q] # mode'[x] =>
                              arg'[x].tc[mode'[q]].at = q \/ Replaceable(q)'
  BY DEF CarriesReferences
<1>1. ASSUME NEW q \in saved' \cap seen'[x], kind'[q] = "ref"
      PROVE  /\ q \in saved /\ kind[q] = "ref" /\ mode'[q] = mode[q]
             /\ Replaceable(q) => Replaceable(q)'
  <2>1. q \in Requests /\ pc'[q] = "done" /\ pc[q] = "done"
    <3>1. q \in Requests
      BY SaveOrKeep DEF TypeOK
    <3>2. pc[q] = "done"
      BY <3>1, StepOfOne DEF SeenFinished, Finished
    <3>3. QED
      BY <3>1, <3>2, StepOfOne
  <2>2. q \in saved /\ q # r
    BY <2>1, SaveOrKeep, StepOfOne
  <2>3. kind[q] = "ref" /\ mode'[q] = mode[q]
    BY <1>1, <2>1, <2>2, StepOfOne
  <2>4. QED
    BY <2>2, <2>3, ReplaceableStays
<1>2. CASE x = r /\ pc[r] = "idle"
  <2>1. StartRef(r)
    BY <1>2 DEF Step, StartPut, StartAlarm, StartDelete, SkipScene, SaveScene, Upload, FailUpload,
      FindView, ReadAnalytics, CommitUpdate, Rollback, EndAnalysis, CommitDelete, CleanImages,
      Arrive, TypeOK
  <2>2. QED
    BY <1>1, <1>2, <2>1, StartCarriesReferences
<1>3. CASE x # r \/ pc[r] # "idle"
  <2>1. /\ kind[x] = "ref" /\ pc[x] # "done"
        /\ arg'[x] = arg[x] /\ mode'[x] = mode[x] /\ seen'[x] = seen[x]
    BY <1>3, StepOfOne, RefKeepsData
  <2>2. QED
    BY <1>1, <2>1 DEF CarriesReferences
<1>4. QED
  BY <1>2, <1>3

LEMMA StepReferencesKept ==
    ASSUME SerialInv, NEW r \in Requests, Step(r)
    PROVE  SerialReferencesKept'
<1> USE DEF SerialInv, TypeInv
<1> SUFFICES ASSUME Master'.live, NEW q \in saved', kind'[q] = "ref"
             PROVE  Master'.tc[mode'[q]].at = q \/ Replaceable(q)'
  BY DEF SerialReferencesKept
<1>1. ASSUME q \in saved
      PROVE  /\ kind[q] = "ref" /\ mode'[q] = mode[q]
             /\ Replaceable(q) => Replaceable(q)'
  <2>1. q \in Requests /\ pc[q] # "idle"
    BY <1>1 DEF TypeOK, SavedArrived
  <2>2. kind[q] = "ref" /\ mode'[q] = mode[q]
    BY <2>1, StepOfOne, RefKeepsData
  <2>3. QED
    BY <1>1, <2>2, ReplaceableStays
<1>2. CASE /\ saved' = saved
           /\ Master'.live => Master.live /\ Master'.tc = Master.tc
  BY <1>1, <1>2 DEF SerialReferencesKept
<1>3. CASE /\ pc[r] = "commit" /\ mode[r] # "none"
           /\ saved' = saved \cup {r}
           /\ Master'.live /\ Master'.tc = arg[r].tc
  <2>1. CASE q = r
    <3>1. kind[r] = "ref" /\ mode'[r] = mode[r]
      BY <1>3, <2>1, StepOfOne, RefKeepsData
    <3>2. QED
      BY <1>3, <2>1, <3>1 DEF CarriesReferences
  <2>2. CASE q # r /\ kind[r] # "ref"
    BY <1>3, <2>2, StepOfOne DEF Replaceable, MayReplace
  <2>3. CASE q # r /\ kind[r] = "ref"
    <3>1. q \in saved /\ q \in Requests /\ pc[q] # "idle"
      BY <1>3, <2>3 DEF TypeOK, SavedArrived
    <3>2. kind[q] = "ref" /\ mode'[q] = mode[q] /\ seen'[q] = seen[q]
      BY <2>3, <3>1, StepOfOne
    <3>3. mode'[r] = mode[r] /\ seen'[r] = seen[r]
      BY <2>3, RefKeepsData
    <3>4. ~Before(r, q)
      BY <1>3, <3>1 DEF Before, SeenFinished
    <3>5. CASE ~Before(q, r)
      <4>1. Overlap(r, q)'
        BY <2>3, <3>2, <3>3, <3>4, <3>5 DEF Overlap, Before
      <4>2. QED
        BY <1>3, <2>3, <4>1 DEF Replaceable, MayReplace
    <3>6. CASE Before(q, r) /\ mode[q] = mode[r]
      <4>1. mode'[r] = mode'[q] /\ Before(q, r)'
        BY <3>2, <3>3, <3>6 DEF Before
      <4>2. QED
        BY <1>3, <2>3, <4>1 DEF Replaceable, MayReplace
    <3>7. CASE Before(q, r) /\ mode[q] # mode[r]
      <4>1. arg[r].tc[mode[q]].at = q \/ Replaceable(q)
        BY <1>3, <2>3, <3>1, <3>2, <3>7 DEF CarriesReferences, Before
      <4>2. QED
        BY <1>1, <1>3, <3>1, <3>2, <4>1
    <3>8. QED
      BY <3>5, <3>6, <3>7
  <2>4. QED
    BY <2>1, <2>2, <2>3
<1>4. QED
  BY <1>2, <1>3, SaveOrKeep

LEMMA NextSerialInv == SerialInv /\ [Next]_vars => SerialInv'
<1> SUFFICES ASSUME SerialInv, [Next]_vars PROVE SerialInv'
  OBVIOUS
<1>1. TypeInv'
  BY NextTypeOK, NextUploadHasRef DEF SerialInv, TypeInv
<1>2. CASE UNCHANGED vars
  BY <1>1, <1>2 DEF vars, SerialInv, SeenFinished, RefPath, SavedArrived, CarriesReferences,
    SerialReferencesKept, Replaceable, MayReplace, Overlap, Before, Master
<1>3. CASE Replicate
  <2>1. Master' = Master
    BY <1>3, ReplicateVersion DEF Replicate, Master, SerialInv, TypeInv, TypeOK
  <2>2. QED
    BY <1>1, <1>3, <2>1 DEF Replicate, ghosts, SerialInv, SeenFinished, RefPath, SavedArrived,
      CarriesReferences, SerialReferencesKept, Replaceable, MayReplace, Overlap, Before
<1>4. ASSUME NEW r \in Requests, Step(r) PROVE SerialInv'
  BY <1>1, <1>4, StepSeenFinished, StepRefPath, StepSavedArrived, StepCarriesReferences,
    StepReferencesKept DEF SerialInv, TypeInv
<1>5. QED
  BY <1>2, <1>3, <1>4 DEF Next

\* Reference images that PUTs record are not lost to PUTs for the other mode,
\* whatever the number of requests and the lag of the replica: what
\* putReferenceImage reads from the master makes it so.
THEOREM ReferencesKept == Spec => []SerialReferencesKept
<1>1. SerialInv => SerialReferencesKept
  BY DEF SerialInv
<1>2. QED
  BY InitSerialInv, NextSerialInv, <1>1, PTL DEF Spec

-----------------------------------------------------------------------------
(***************************************************************************)
(* The other properties.  Each is about what a request read before its     *)
(* commit; the invariant says how far that is still so when it commits,    *)
(* and that whoever changed it since then overlaps with the request.       *)
(***************************************************************************)

\* Where a request of each kind may be, and with what in its hands.
Paths ==
    \A r \in Requests :
        /\ pc[r] = "idle" => kind[r] = "none" /\ reply[r] = "none"
        /\ kind[r] = "put" => pc[r] \in {"find", "analytics", "commit", "done"}
        /\ kind[r] = "delete" => pc[r] \in {"analytics", "commit", "clean", "done"}
        /\ pc[r] \in {"scene", "analysed"} => kind[r] = "alarm"
        /\ pc[r] = "clean" => kind[r] = "delete"
        /\ kind[r] = "ref" => pc[r] \in {"upload", "find", "analytics", "commit", "done"}
        /\ mode[r] # "none" => kind[r] \in {"ref", "alarm"}
        /\ kind[r] = "delete" /\ reply[r] = "ok" => pc[r] = "done"

\* An alarm rewrites the camera for the snapshot after its answer, or for a
\* reference image before it.
SnapshotAfterAnswer ==
    \A r \in Requests :
        kind[r] = "alarm" /\ mode[r] = "none" /\ pc[r] \in {"find", "analytics", "commit"} =>
            arg[r].snapshot /\ reply[r] = "ok"

\* Somebody else's update reached the row who had not finished when q arrived.
Disturbed(q) == \E r \in updated \ {q} : ~Before(r, q)

\* While nobody disturbs a PUT that saw the writer's columns, the columns that
\* it will leave alone are as it was sent them.
ComparedStands ==
    \A q \in fresh :
        kind[q] = "put" /\ pc[q] \in {"analytics", "commit"} =>
            \/ Disturbed(q)
            \/ \A f \in Fields \ modified[q] : Master.config[f] = arg[q].config[f]

\* A PUT whose update reached the row has been answered.
UpdatedPutsDone ==
    \A q \in updated : pc[q] # "idle" /\ (kind[q] = "put" => pc[q] = "done")

\* What a request has not read of the analytics was added by requests that
\* overlap with it, and none of those is there whose writers have not arrived.
AddedMeanwhile(r, rest) == \A a \in rest : a \in Requests /\ ~Before(a, r)

AnalyticsRead ==
    /\ \A a \in Master.analytics \cap Requests : pc[a] # "idle"
    /\ \A r \in Requests :
         /\ pc[r] = "commit" => AddedMeanwhile(r, Master.analytics \ rows[r])
         /\ kind[r] = "delete" /\ (pc[r] = "clean" \/ reply[r] = "ok") =>
                AddedMeanwhile(r, Master.analytics)

\* Images are deleted once the camera is.
CleanedIsDeleted == (\E r \in Requests : pc[r] = "clean") => ~Master.live

\* An id of an image that S3 has, or that an alarm minted.
Stored(id) == id = None \/ id \in images \/ (id \in Requests /\ kind[id] = "alarm")

\* While the camera is not deleted, S3 has the images that any version names,
\* and those that a request is about to write, but for one to be uploaded.
ImagesStored ==
    Master.live =>
        /\ \A i \in DOMAIN versions : \A m \in Modes : Stored(versions[i].tc[m].id)
        /\ \A r \in Requests : kind[r] \in {"ref", "alarm"} /\ pc[r] # "done" =>
             \A m \in Modes :
                 \/ Stored(arg[r].tc[m].id)
                 \/ kind[r] = "ref" /\ pc[r] = "upload" /\ m = mode[r]

RewriteInv ==
    /\ TypeInv /\ SeenFinished /\ Paths /\ SnapshotAfterAnswer
    /\ ComparedStands /\ UpdatedPutsDone /\ FreshPutApplied
    /\ AnalyticsRead /\ AnalyticsReplaced
    /\ CleanedIsDeleted /\ ImagesStored

\* What a soft deletion makes of the row.
RemovedRow(r) == [Master EXCEPT !.live = FALSE, !.analytics = @ \ rows[r]]

\* The writer's row changes in the two commits only.
LEMMA CommitOrKeep ==
    ASSUME TypeInv, NEW r \in Requests, Step(r)
    PROVE  \/ CommitUpdate(r) /\ Master' = UpdatedRow(r)
           \/ CommitDelete(r) /\ Master' = RemovedRow(r)
           \/ ~CommitUpdate(r) /\ ~CommitDelete(r) /\ Master' = Master
                  /\ versions' = versions /\ updated' = updated
<1> USE DEF TypeInv
<1>1. Master \in Row
  BY EndsAreRows DEF TypeOK
<1>2. CASE CommitUpdate(r)
  <2>1. UpdatedRow(r) \in Row
    BY <1>1, UpdatedRowType DEF TypeOK
  <2>2. QED
    BY <1>2, <2>1, CommitVersion DEF CommitUpdate, TypeOK, Master
<1>3. CASE CommitDelete(r)
  <2>1. RemovedRow(r) \in Row
    BY <1>1 DEF Row, RemovedRow
  <2>2. versions' = Append(versions, RemovedRow(r))
    BY <1>3 DEF CommitDelete, RemovedRow
  <2>3. QED
    BY <1>3, <2>1, <2>2, CommitVersion DEF TypeOK, Master
<1>4. CASE ~CommitUpdate(r) /\ ~CommitDelete(r)
  <2>1. UNCHANGED <<versions, updated>>
    BY <1>4 DEF Step, StartPut, StartRef, StartAlarm, StartDelete, SkipScene, SaveScene, Upload,
      FailUpload, FindView, ReadAnalytics, Rollback, EndAnalysis, CleanImages, store, ghosts
  <2>2. QED
    BY <1>4, <2>1 DEF Master
<1>5. QED
  BY <1>2, <1>3, <1>4

\* What a step does to the row, whatever it is: a deleted camera stays deleted,
\* and a request adds no analytics but its own.
LEMMA RowAfter ==
    ASSUME TypeInv, NEW r \in Requests, Step(r)
    PROVE  /\ Master \in Row /\ Replica \in Row
           /\ Master'.live => Master.live /\ ~CommitDelete(r)
           /\ Master'.analytics \subseteq Master.analytics \cup {r}
           /\ updated \subseteq updated' /\ updated' \subseteq updated \cup {r}
           /\ CommitUpdate(r) \/ CommitDelete(r) => pc[r] = "commit"
           /\ Master'.config # Master.config => CommitUpdate(r) /\ Master.live
<1>1. Master \in Row /\ Replica \in Row
  BY EndsAreRows DEF TypeInv, TypeOK
<1>2. CASE CommitUpdate(r) /\ Master' = UpdatedRow(r)
  BY <1>1, <1>2 DEF CommitUpdate, CommitDelete, UpdatedRow, UpdatedAnalytics, Row
<1>3. CASE CommitDelete(r) /\ Master' = RemovedRow(r)
  BY <1>1, <1>3 DEF CommitUpdate, CommitDelete, RemovedRow, Row
<1>4. CASE ~CommitUpdate(r) /\ ~CommitDelete(r) /\ Master' = Master /\ updated' = updated
  BY <1>1, <1>4
<1>5. QED
  BY <1>2, <1>3, <1>4, CommitOrKeep

\* A request that steps has not finished: nothing has it before itself.
LEMMA NotBefore ==
    ASSUME TypeOK, SeenFinished, NEW r \in Requests, Step(r), NEW q \in Requests \ {r}
    PROVE  ~Before(r, q) /\ ~Before(r, q)' /\ ~Before(r, r)
BY StepOfOne DEF Before, SeenFinished

\* Once somebody has disturbed a request, that is so.
LEMMA DisturbedStays ==
    ASSUME TypeInv, NEW r \in Requests, Step(r), NEW q \in Requests, pc[q] # "idle", Disturbed(q)
    PROVE  Disturbed(q)'
<1>1. updated \subseteq updated'
  BY RowAfter
<1>2. seen'[q] = seen[q]
  BY StepOfOne DEF TypeInv
<1>3. QED
  BY <1>1, <1>2 DEF Disturbed, Before

LEMMA InitRewriteInv == Init => RewriteInv
<1> SUFFICES ASSUME Init PROVE RewriteInv
  OBVIOUS
<1>1. PICK c \in Configs, tc \in [Modes -> {NoRef, [id |-> Earlier, at |-> Earlier]}],
           s \in BOOLEAN :
        LET created == [live |-> TRUE, config |-> c, tc |-> tc,
                        analytics |-> {Earlier}, snapshot |-> s]
        IN  /\ versions \in
                 {<<created>>,
                  <<[created EXCEPT !.live = FALSE, !.analytics = {}], created>>}
            /\ images = {tc[m].id : m \in Modes} \ {None}
  BY DEF Init
<1> DEFINE created == [live |-> TRUE, config |-> c, tc |-> tc,
                       analytics |-> {Earlier}, snapshot |-> s]
           before == [created EXCEPT !.live = FALSE, !.analytics = {}]
<1>2. created.live /\ created.tc = tc /\ before.tc = tc /\ created.analytics = {Earlier}
  OBVIOUS
<1>3. Master = created /\ \A i \in DOMAIN versions : versions[i] \in {created, before}
  <2> HIDE DEF created, before
  <2>1. versions = <<created>> \/ versions = <<before, created>>
    BY <1>1 DEF created, before
  <2>2. CASE versions = <<created>>
    BY <2>2 DEF Master
  <2>3. CASE versions = <<before, created>>
    <3>1. /\ Len(versions) = 2 /\ DOMAIN versions = {1, 2}
          /\ versions[1] = before /\ versions[2] = created
      BY <2>3
    <3>2. QED
      BY <3>1 DEF Master
  <2>4. QED
    BY <2>1, <2>2, <2>3
<1> HIDE DEF created, before
<1>4. \A m \in Modes : tc[m].id = None \/ tc[m].id \in images
  BY <1>1
<1>5. ImagesStored
  BY <1>2, <1>3, <1>4 DEF ImagesStored, Stored, Init
<1>6. AnalyticsRead /\ AnalyticsReplaced
  BY <1>2, <1>3, ConfigAssumption DEF AnalyticsRead, AnalyticsReplaced, Init
<1>7. CleanedIsDeleted
  BY DEF CleanedIsDeleted, Init
<1>8. /\ SeenFinished /\ Paths /\ SnapshotAfterAnswer /\ ComparedStands /\ UpdatedPutsDone
      /\ FreshPutApplied
  BY DEF Init, SeenFinished, Paths, SnapshotAfterAnswer, ComparedStands, UpdatedPutsDone,
    FreshPutApplied
<1>9. QED
  BY <1>5, <1>6, <1>7, <1>8, InitTypeInv DEF RewriteInv

LEMMA StepPaths ==
    ASSUME TypeInv, Paths, SnapshotAfterAnswer, NEW r \in Requests, Step(r)
    PROVE  Paths' /\ SnapshotAfterAnswer'
<1> USE DEF TypeInv
<1> DEFINE Path ==
             /\ kind'[r] = "put" => pc'[r] \in {"find", "analytics", "commit", "done"}
             /\ kind'[r] = "delete" => pc'[r] \in {"analytics", "commit", "clean", "done"}
             /\ pc'[r] \in {"scene", "analysed"} => kind'[r] = "alarm"
             /\ pc'[r] = "clean" => kind'[r] = "delete"
             /\ kind'[r] = "ref" => pc'[r] \in {"upload", "find", "analytics", "commit", "done"}
             /\ mode'[r] # "none" => kind'[r] \in {"ref", "alarm"}
             /\ kind'[r] = "delete" /\ reply'[r] = "ok" => pc'[r] = "done"
           Snapshot ==
             kind'[r] = "alarm" /\ mode'[r] = "none" /\ pc'[r] \in {"find", "analytics", "commit"} =>
                 arg'[r].snapshot /\ reply'[r] = "ok"
<1>1. Path /\ Snapshot
  <2> USE DEF TypeOK, Paths
  <2>1. CASE StartPut(r)
    BY <2>1 DEF StartPut, Arrive, Answer, Goto
  <2>2. CASE StartRef(r)
    BY <2>2 DEF StartRef, Arrive, Answer, Goto
  <2>3. CASE StartAlarm(r)
    BY <2>3 DEF StartAlarm, Arrive, Answer, Goto
  <2>4. CASE StartDelete(r)
    BY <2>4 DEF StartDelete, Arrive, Answer, Goto
  <2>5. CASE SkipScene(r) \/ SaveScene(r)
    BY <2>5 DEF SkipScene, SaveScene, Goto, ghosts
  <2>6. CASE Upload(r) \/ FailUpload(r)
    BY <2>6 DEF Upload, FailUpload, Goto, Answer, UploadHasRef, ghosts, Modes
  <2>7. CASE FindView(r) \/ ReadAnalytics(r)
    BY <2>7 DEF FindView, ReadAnalytics, Goto, Answer, Conclude, SnapshotAfterAnswer, ghosts
  <2>8. CASE CommitUpdate(r) \/ Rollback(r)
    BY <2>8 DEF CommitUpdate, Rollback, Goto, Answer, Conclude, ghosts
  <2>9. CASE EndAnalysis(r)
    BY <2>9 DEF EndAnalysis, Goto, Answer, ghosts
  <2>10. CASE CommitDelete(r) \/ CleanImages(r)
    BY <2>10 DEF CommitDelete, CleanImages, Goto, Answer, ghosts
  <2>11. QED
    BY <2>1, <2>2, <2>3, <2>4, <2>5, <2>6, <2>7, <2>8, <2>9, <2>10 DEF Step
<1> HIDE DEF Path, Snapshot
<1>2. SnapshotAfterAnswer'
  BY <1>1, StepOfOne DEF SnapshotAfterAnswer, Snapshot
<1>3. Paths'
  <2> SUFFICES ASSUME NEW q \in Requests
               PROVE  /\ pc'[q] = "idle" => kind'[q] = "none" /\ reply'[q] = "none"
                      /\ kind'[q] = "put" => pc'[q] \in {"find", "analytics", "commit", "done"}
                      /\ kind'[q] = "delete" => pc'[q] \in {"analytics", "commit", "clean", "done"}
                      /\ pc'[q] \in {"scene", "analysed"} => kind'[q] = "alarm"
                      /\ pc'[q] = "clean" => kind'[q] = "delete"
                      /\ kind'[q] = "ref" =>
                             pc'[q] \in {"upload", "find", "analytics", "commit", "done"}
                      /\ mode'[q] # "none" => kind'[q] \in {"ref", "alarm"}
                      /\ kind'[q] = "delete" /\ reply'[q] = "ok" => pc'[q] = "done"
    BY DEF Paths
  <2>1. CASE q = r
    BY <1>1, <2>1, StepOfOne DEF Path
  <2>2. CASE q # r
    BY <2>2, StepOfOne DEF Paths
  <2>3. QED
    BY <2>1, <2>2
<1>4. QED
  BY <1>2, <1>3

\* A PUT comes to these two places by the two reads alone.
LEMMA PutReads ==
    ASSUME TypeOK, Paths, NEW r \in Requests, Step(r),
           kind'[r] = "put", pc'[r] \in {"analytics", "commit"}
    PROVE  FindView(r) \/ ReadAnalytics(r)
<1> USE DEF TypeOK
<1>1. ~StartPut(r) /\ ~StartRef(r) /\ ~StartAlarm(r) /\ ~StartDelete(r)
  BY DEF StartPut, StartRef, StartAlarm, StartDelete, Arrive, Answer, Goto
<1>2. ~SkipScene(r) /\ ~SaveScene(r) /\ ~Upload(r) /\ ~FailUpload(r) /\ ~EndAnalysis(r)
  BY DEF SkipScene, SaveScene, Upload, FailUpload, EndAnalysis, Answer, Goto
<1>3. ~CommitDelete(r) /\ ~CleanImages(r)
  BY DEF CommitDelete, CleanImages, Answer, Goto
<1>4. ~CommitUpdate(r)
  <2>1. CASE CommitUpdate(r)
    BY <2>1 DEF CommitUpdate, Conclude, Answer, Goto, Paths
  <2>2. QED
    BY <2>1
<1>5. ~Rollback(r)
  BY DEF Rollback, Conclude, Answer, Goto, Paths
<1>6. QED
  BY <1>1, <1>2, <1>3, <1>4, <1>5 DEF Step

LEMMA StepComparedStands ==
    ASSUME RewriteInv, NEW r \in Requests, Step(r)
    PROVE  ComparedStands'
<1> SUFFICES ASSUME NEW q \in fresh', kind'[q] = "put", pc'[q] \in {"analytics", "commit"}
             PROVE  \/ Disturbed(q)'
                    \/ \A f \in Fields \ modified'[q] : Master'.config[f] = arg'[q].config[f]
  BY DEF ComparedStands
<1> USE DEF RewriteInv, TypeInv
<1>1. fresh' = fresh \/ FindView(r)
  BY DEF Step, StartPut, StartRef, StartAlarm, StartDelete, SkipScene, SaveScene, Upload,
    FailUpload, ReadAnalytics, CommitUpdate, Rollback, EndAnalysis, CommitDelete, CleanImages, ghosts
<1>2. fresh' \subseteq fresh \cup {r}
  BY <1>1 DEF FindView
<1>3. CASE q # r
  <2>1. q \in fresh /\ q \in Requests
    BY <1>2, <1>3 DEF TypeOK
  <2>2. /\ kind[q] = "put" /\ pc[q] \in {"analytics", "commit"}
        /\ modified'[q] = modified[q] /\ arg'[q] = arg[q]
    BY <1>3, <2>1, StepOfOne
  <2>3. CASE Master'.config = Master.config
    BY <2>1, <2>2, <2>3, DisturbedStays DEF ComparedStands
  <2>4. CASE Master'.config # Master.config
    <3>1. CommitUpdate(r) /\ Master.live
      BY <2>4, RowAfter
    <3>2. r \in updated'
      BY <3>1 DEF CommitUpdate
    <3>3. ~Before(r, q)'
      BY <1>3, <2>1, NotBefore
    <3>4. QED
      BY <1>3, <3>2, <3>3 DEF Disturbed
  <2>5. QED
    BY <2>3, <2>4
<1>4. CASE q = r
  <2>1. FindView(r) \/ ReadAnalytics(r)
    BY <1>4, PutReads
  <2>2. Master' = Master
    BY <2>1, CommitOrKeep DEF FindView, ReadAnalytics, CommitUpdate, CommitDelete
  <2>3. CASE FindView(r)
    <3>1. Replica.live
      BY <1>4, <2>3 DEF FindView, Conclude, Answer, Goto, TypeOK
    <3>2. /\ modified'[r] = Differing(Replica, arg[r].config) /\ arg'[r] = arg[r]
          /\ Replica.config = Master.config
      BY <1>4, <2>3, <3>1 DEF FindView, TypeOK
    <3>3. QED
      BY <1>4, <2>2, <3>2 DEF Differing
  <2>4. CASE ReadAnalytics(r)
    <3>1. /\ kind[r] = "put" /\ pc[r] = "analytics" /\ r \in fresh
          /\ modified'[r] = modified[r] /\ arg'[r] = arg[r]
      BY <1>4, <2>4 DEF ReadAnalytics, ghosts
    <3>2. QED
      BY <1>4, <2>2, <3>1, DisturbedStays DEF ComparedStands
  <2>5. QED
    BY <2>1, <2>3, <2>4
<1>5. QED
  BY <1>3, <1>4

LEMMA StepUpdatedPutsDone ==
    ASSUME RewriteInv, NEW r \in Requests, Step(r)
    PROVE  UpdatedPutsDone'
<1> SUFFICES ASSUME NEW q \in updated'
             PROVE  pc'[q] # "idle" /\ (kind'[q] = "put" => pc'[q] = "done")
  BY DEF UpdatedPutsDone
<1> USE DEF RewriteInv, TypeInv
<1>1. q \in updated \/ q = r
  BY RowAfter
<1>2. CASE q # r
  BY <1>1, <1>2, StepOfOne DEF UpdatedPutsDone, TypeOK
<1>3. CASE q = r /\ q \in updated
  BY <1>3, StepOfOne DEF UpdatedPutsDone
<1>4. CASE q = r /\ q \notin updated
  <2>1. CommitUpdate(r) \/ CommitDelete(r)
    BY <1>4, CommitOrKeep
  <2>2. CASE CommitUpdate(r)
    BY <1>4, <2>2, StepOfOne DEF CommitUpdate, Conclude, Answer, Goto, TypeOK
  <2>3. CASE CommitDelete(r)
    BY <1>4, <2>3, StepOfOne DEF CommitDelete
  <2>4. QED
    BY <2>1, <2>2, <2>3
<1>5. QED
  BY <1>2, <1>3, <1>4

\* The columns that a PUT did not write were as it was sent them, if it compared
\* them with the writer's and nobody disturbed it.
LEMMA StepFreshPutApplied ==
    ASSUME RewriteInv, NEW r \in Requests, Step(r)
    PROVE  FreshPutApplied'
<1> SUFFICES ASSUME Master'.live, NEW q \in updated' \cap fresh', kind'[q] = "put"
             PROVE  Master'.config = arg'[q].config \/ Disturbed(q)'
  BY DEF FreshPutApplied, Disturbed
<1> USE DEF RewriteInv, TypeInv
<1>1. Master.live /\ ~CommitDelete(r) /\ Master \in Row
  BY RowAfter
<1>2. q \in Requests
  BY RowAfter DEF TypeOK
<1>3. CASE q # r
  <2>1. q \in updated /\ pc[q] # "idle" /\ kind[q] = "put" /\ arg'[q] = arg[q]
    BY <1>2, <1>3, RowAfter, StepOfOne DEF UpdatedPutsDone
  <2>2. q \in fresh
    BY <1>3 DEF Step, StartPut, StartRef, StartAlarm, StartDelete, SkipScene, SaveScene, Upload,
      FailUpload, FindView, ReadAnalytics, CommitUpdate, Rollback, EndAnalysis, CommitDelete,
      CleanImages, ghosts
  <2>3. CASE CommitUpdate(r)
    <3>1. r \in updated'
      BY <1>1, <2>3 DEF CommitUpdate
    <3>2. ~Before(r, q)'
      BY <1>2, <1>3, NotBefore
    <3>3. QED
      BY <1>3, <3>1, <3>2 DEF Disturbed
  <2>4. CASE Master' = Master
    <3>1. Master.config = arg[q].config \/ Disturbed(q)
      BY <1>1, <2>1, <2>2 DEF FreshPutApplied, Disturbed
    <3>2. QED
      BY <1>2, <2>1, <2>4, <3>1, DisturbedStays
  <2>5. QED
    BY <1>1, <2>3, <2>4, CommitOrKeep
<1>4. CASE q = r
  <2>1. r \notin updated
    BY <1>4, StepOfOne DEF UpdatedPutsDone
  <2>2. CommitUpdate(r) /\ Master' = UpdatedRow(r)
    BY <1>1, <1>4, <2>1, CommitOrKeep
  <2>3. /\ kind[r] = "put" /\ pc[r] = "commit" /\ r \in fresh /\ arg'[r] = arg[r]
    BY <1>4, <2>2 DEF CommitUpdate
  <2>4. Master'.config = UpdatedConfig(r)
    BY <1>1, <2>2 DEF UpdatedRow, Row
  <2>5. CASE Disturbed(r)
    BY <1>4, <2>3, <2>5, DisturbedStays
  <2>6. CASE \A f \in Fields \ modified[r] : Master.config[f] = arg[r].config[f]
    <3>1. arg[r].config \in [Fields -> Values]
      BY DEF TypeOK, CameraData, Configs
    <3>2. UpdatedConfig(r) = arg[r].config
      BY <2>6, <3>1 DEF UpdatedConfig
    <3>3. QED
      BY <1>4, <2>3, <2>4, <3>2
  <2>7. QED
    BY <2>3, <2>5, <2>6 DEF ComparedStands
<1>5. QED
  BY <1>3, <1>4

\* The analytics at the commit are those read before it and those of requests
\* that overlap.
LEMMA StepAnalyticsRead ==
    ASSUME RewriteInv, NEW r \in Requests, Step(r)
    PROVE  AnalyticsRead'
<1> USE DEF RewriteInv, TypeInv
<1> DEFINE Late(x, a) == a \in Requests /\ ~(a \in seen'[x])
<1>1. \A a \in Master'.analytics \cap Requests : pc'[a] # "idle"
  BY RowAfter, StepOfOne DEF AnalyticsRead
<1>2. ASSUME NEW x \in Requests, x # r, NEW out, AddedMeanwhile(x, Master.analytics \ out)
      PROVE  \A a \in Master'.analytics \ out : Late(x, a)
  <2> SUFFICES ASSUME NEW a \in Master'.analytics \ out PROVE Late(x, a)
    OBVIOUS
  <2>1. seen'[x] = seen[x]
    BY <1>2, StepOfOne
  <2>2. CASE a = r
    BY <1>2, <2>2, NotBefore DEF Before
  <2>3. CASE a \in Master.analytics
    BY <1>2, <2>1, <2>3 DEF AddedMeanwhile, Before
  <2>4. QED
    BY <2>2, <2>3, RowAfter
<1>3. ASSUME NEW x \in Requests, pc'[x] = "commit"
      PROVE  \A a \in Master'.analytics \ rows'[x] : Late(x, a)
  <2>1. CASE x # r
    <3>1. pc[x] = "commit" /\ rows'[x] = rows[x]
      BY <1>3, <2>1, StepOfOne
    <3>2. QED
      BY <1>2, <2>1, <3>1 DEF AnalyticsRead
  <2>2. CASE x = r
    <3>1. ReadAnalytics(r)
      BY <1>3, <2>2 DEF Step, StartPut, StartRef, StartAlarm, StartDelete, SkipScene, SaveScene,
        Upload, FailUpload, FindView, CommitUpdate, Rollback, EndAnalysis, CommitDelete,
        CleanImages, Answer, Goto, Conclude, TypeOK
    <3>2. rows'[r] = Master.analytics /\ Master' = Master
      BY <3>1, CommitOrKeep DEF ReadAnalytics, AnalyticsToDelete, CommitUpdate, CommitDelete, TypeOK
    <3>3. QED
      BY <2>2, <3>2
  <2>3. QED
    BY <2>1, <2>2
<1>4. ASSUME NEW x \in Requests, kind'[x] = "delete", pc'[x] = "clean" \/ reply'[x] = "ok"
      PROVE  \A a \in Master'.analytics : Late(x, a)
  <2>1. CASE x # r
    <3>1. kind[x] = "delete" /\ (pc[x] = "clean" \/ reply[x] = "ok")
      BY <1>4, <2>1, StepOfOne
    <3>2. AddedMeanwhile(x, Master.analytics \ {})
      BY <3>1 DEF AnalyticsRead, AddedMeanwhile
    <3>3. \A a \in Master'.analytics \ {} : Late(x, a)
      BY <1>2, <2>1, <3>2
    <3>4. QED
      BY <3>3
  <2>2. CASE x = r
    <3>1. kind[r] = "delete" /\ seen'[r] = seen[r] /\ (CommitDelete(r) \/ CleanImages(r))
      <4>1. pc[r] # "idle"
        BY <1>4, <2>2 DEF Step, StartPut, StartRef, StartAlarm, StartDelete, SkipScene, SaveScene,
          Upload, FailUpload, FindView, ReadAnalytics, CommitUpdate, Rollback, EndAnalysis,
          CommitDelete, CleanImages, Arrive, Answer, Goto, TypeOK, Paths
      <4>2. kind[r] = "delete" /\ pc[r] \in {"analytics", "commit", "clean"} /\ reply[r] # "ok"
        BY <1>4, <2>2, <4>1, StepOfOne DEF Paths
      <4>3. QED
        BY <1>4, <2>2, <4>1, <4>2, StepOfOne DEF Step, StartPut, StartRef, StartAlarm, StartDelete,
          SkipScene, SaveScene, Upload, FailUpload, FindView, ReadAnalytics, CommitUpdate, Rollback,
          EndAnalysis, Arrive, Answer, Goto, Conclude, TypeOK
    <3>2. CASE CommitDelete(r)
      <4>1. Master' = RemovedRow(r) /\ pc[r] = "commit" /\ Master \in Row
        BY <3>2, CommitOrKeep, RowAfter DEF CommitUpdate, CommitDelete
      <4>2. Master'.analytics = Master.analytics \ rows[r]
        BY <4>1 DEF RemovedRow, Row
      <4>3. QED
        BY <2>2, <3>1, <4>1, <4>2 DEF AnalyticsRead, AddedMeanwhile, Before
    <3>3. CASE CleanImages(r)
      <4>1. Master' = Master /\ pc[r] = "clean"
        BY <3>3, CommitOrKeep DEF CleanImages, CommitUpdate, CommitDelete
      <4>2. QED
        BY <2>2, <3>1, <4>1 DEF AnalyticsRead, AddedMeanwhile, Before
    <3>4. QED
      BY <3>1, <3>2, <3>3
  <2>3. QED
    BY <2>1, <2>2
<1>5. QED
  BY <1>1, <1>3, <1>4 DEF AnalyticsRead, AddedMeanwhile, Before

\* A step leaves the analytics alone, removes some, or replaces them by those
\* of an update.
LEMMA AnalyticsAfter ==
    ASSUME TypeInv, NEW r \in Requests, Step(r)
    PROVE  \/ Master'.analytics \subseteq Master.analytics
           \/ CommitUpdate(r) /\ Master'.analytics = UpdatedAnalytics(r)
<1>1. Master \in Row
  BY RowAfter
<1>2. CASE CommitUpdate(r) /\ Master' = UpdatedRow(r)
  <2>1. UpdatedRow(r).analytics = UpdatedAnalytics(r)
    BY <1>1 DEF UpdatedRow, Row
  <2>2. QED
    BY <1>2, <2>1
<1>3. CASE Master' = RemovedRow(r)
  <2>1. RemovedRow(r).analytics = Master.analytics \ rows[r]
    BY <1>1 DEF RemovedRow, Row
  <2>2. QED
    BY <1>3, <2>1
<1>4. CASE Master' = Master
  BY <1>4
<1>5. QED
  BY <1>2, <1>3, <1>4, CommitOrKeep

\* Whose analytics stay when a request adds its own, overlaps with it.
LEMMA StepAnalyticsReplaced ==
    ASSUME RewriteInv, NEW r \in Requests, Step(r)
    PROVE  AnalyticsReplaced'
<1> SUFFICES ASSUME NEW a \in Master'.analytics, NEW b \in Master'.analytics, a # b
             PROVE  a \in Requests /\ b \in Requests /\ Overlap(a, b)'
  BY DEF AnalyticsReplaced
<1>0. \/ Master'.analytics \subseteq Master.analytics
      \/ CommitUpdate(r) /\ Master'.analytics = UpdatedAnalytics(r)
  BY AnalyticsAfter DEF RewriteInv
<1> USE DEF RewriteInv, TypeInv
<1>1. ASSUME NEW x \in Master'.analytics, r \in Master'.analytics, x # r,
             x \notin Master.analytics \/ r \notin Master.analytics
      PROVE  x \in Requests /\ ~(x \in seen'[r]) /\ ~(r \in seen'[x])
  <2>1. CommitUpdate(r)
    BY <1>0, <1>1
  <2>2. Master'.analytics = UpdatedAnalytics(r)
    BY <1>0, <1>1
  <2>3. pc[r] = "commit" /\ x \in Master.analytics \ rows[r]
    BY <1>1, <2>1, <2>2 DEF CommitUpdate, UpdatedAnalytics
  <2>4. x \in Requests /\ ~Before(x, r)
    BY <2>3 DEF AnalyticsRead, AddedMeanwhile
  <2>5. seen'[r] = seen[r]
    BY <2>3, StepOfOne
  <2>6. QED
    BY <1>1, <2>4, <2>5, NotBefore DEF Before
<1>2. CASE a \in Master.analytics /\ b \in Master.analytics
  <2>1. a \in Requests /\ b \in Requests /\ Overlap(a, b)
    BY <1>2 DEF AnalyticsReplaced
  <2>2. seen'[a] = seen[a] /\ seen'[b] = seen[b]
    BY <1>2, <2>1, StepOfOne DEF AnalyticsRead
  <2>3. QED
    BY <2>1, <2>2 DEF Overlap, Before
<1>3. CASE a \notin Master.analytics
  <2>1. a = r
    BY <1>3, RowAfter
  <2>2. QED
    BY <1>1, <1>3, <2>1 DEF Overlap, Before
<1>4. CASE b \notin Master.analytics
  <2>1. b = r
    BY <1>4, RowAfter
  <2>2. QED
    BY <1>1, <1>4, <2>1 DEF Overlap, Before
<1>5. QED
  BY <1>2, <1>3, <1>4

LEMMA StepCleanedIsDeleted ==
    ASSUME RewriteInv, NEW r \in Requests, Step(r)
    PROVE  CleanedIsDeleted'
<1> SUFFICES ASSUME NEW x \in Requests, pc'[x] = "clean"
             PROVE  ~Master'.live
  BY DEF CleanedIsDeleted
<1> USE DEF RewriteInv, TypeInv
<1>1. CASE pc[x] = "clean"
  BY <1>1, RowAfter DEF CleanedIsDeleted
<1>2. CASE pc[x] # "clean"
  <2>1. x = r
    BY <1>2, StepOfOne
  <2>2. CommitDelete(r)
    BY <1>2, <2>1 DEF Step, StartPut, StartRef, StartAlarm, StartDelete, SkipScene, SaveScene,
      Upload, FailUpload, FindView, ReadAnalytics, CommitUpdate, Rollback, EndAnalysis,
      CleanImages, Answer, Goto, Conclude, TypeOK
  <2>3. QED
    BY <2>2, RowAfter
<1>3. QED
  BY <1>1, <1>2

\* The image that a completed config names is the one it named, or the request's.
LEMMA WithRefNames ==
    ASSUME NEW tc \in Tampering, NEW m \in Modes, NEW r \in Requests, NEW n \in Modes
    PROVE  WithRef(tc, m, r)[n].id = IF n = m /\ ~HasRef(tc, m) THEN r ELSE tc[n].id
BY DEF WithRef, HasRef, Tampering, Ref

\* While the camera is there, no step takes away an image that is stored.
LEMMA StoredStays ==
    ASSUME RewriteInv, NEW r \in Requests, Step(r), Master'.live, NEW id, Stored(id)
    PROVE  id = None \/ id \in images' \/ (id \in Requests /\ kind'[id] = "alarm")
<1> USE DEF RewriteInv, TypeInv
<1>1. ~CleanImages(r)
  BY RowAfter DEF CleanedIsDeleted, CleanImages
<1>2. images \subseteq images'
  BY <1>1 DEF Step, StartPut, StartRef, StartAlarm, StartDelete, SkipScene, SaveScene, Upload,
    FailUpload, FindView, ReadAnalytics, CommitUpdate, Rollback, EndAnalysis, CommitDelete, store
<1>3. id \in Requests /\ kind[id] = "alarm" => kind'[id] = "alarm"
  BY StepOfOne DEF Paths
<1>4. QED
  BY <1>2, <1>3 DEF Stored

LEMMA StepImagesStored ==
    ASSUME RewriteInv, NEW r \in Requests, Step(r)
    PROVE  ImagesStored'
<1> SUFFICES ASSUME Master'.live PROVE ImagesStored'
  BY DEF ImagesStored
<1> USE DEF RewriteInv, TypeInv
<1>1. Master.live /\ ~CommitDelete(r) /\ Master \in Row /\ Replica \in Row
  BY RowAfter
<1>2. 1 \in DOMAIN versions /\ Len(versions) \in DOMAIN versions
  BY EndsAreVersions DEF TypeOK
<1>3. \A m \in Modes : Stored(Master.tc[m].id) /\ Stored(Replica.tc[m].id)
  BY <1>1, <1>2 DEF ImagesStored, Master, Replica
<1> DEFINE Kept(id) == id = None \/ id \in images' \/ (id \in Requests /\ kind'[id] = "alarm")
<1>4. \A id : Stored(id) => Kept(id)
  BY StoredStays
<1> HIDE DEF Kept
<1>5. ASSUME NEW i \in DOMAIN versions', NEW m \in Modes
      PROVE  Kept(versions'[i].tc[m].id)
  <2>1. CASE versions' = versions
    BY <1>1, <1>4, <2>1 DEF ImagesStored
  <2>2. CASE CommitUpdate(r)
    <3>1. UpdatedRow(r) \in Row
      BY <1>1, UpdatedRowType DEF TypeOK
    <3>2. versions' = Append(versions, UpdatedRow(r))
      BY <2>2 DEF CommitUpdate
    <3>3. \/ versions'[i] = UpdatedRow(r)
          \/ i \in DOMAIN versions /\ versions'[i] = versions[i]
      BY <3>1, <3>2, VersionsAfterCommit DEF TypeOK
    <3>4. UpdatedRow(r).tc = IF mode[r] = "none" THEN Master.tc ELSE arg[r].tc
      BY <1>1 DEF UpdatedRow, Row
    <3>5. mode[r] # "none" => Stored(arg[r].tc[m].id)
      BY <1>1, <2>2 DEF CommitUpdate, Paths, ImagesStored
    <3>6. Stored(versions'[i].tc[m].id)
      BY <1>1, <1>3, <3>3, <3>4, <3>5 DEF ImagesStored
    <3>7. QED
      BY <1>4, <3>6
  <2>3. QED
    BY <1>1, <2>1, <2>2, CommitOrKeep
<1>6. ASSUME NEW x \in Requests, kind'[x] \in {"ref", "alarm"}, pc'[x] # "done", NEW m \in Modes
      PROVE  \/ Kept(arg'[x].tc[m].id)
             \/ kind'[x] = "ref" /\ pc'[x] = "upload" /\ m = mode'[x]
  <2>1. CASE x # r
    <3>1. /\ kind'[x] = kind[x] /\ pc'[x] = pc[x] /\ arg'[x] = arg[x] /\ mode'[x] = mode[x]
      BY <2>1, StepOfOne
    <3>2. \/ Stored(arg[x].tc[m].id)
          \/ kind[x] = "ref" /\ pc[x] = "upload" /\ m = mode[x]
      BY <1>1, <1>6, <3>1 DEF ImagesStored
    <3>3. QED
      BY <1>4, <3>1, <3>2
  <2>2. CASE x = r /\ pc[r] = "idle"
    <3>1. StartRef(r) \/ StartAlarm(r)
      BY <1>6, <2>2 DEF Step, StartPut, StartDelete, Arrive, SkipScene, SaveScene, Upload,
        FailUpload, FindView, ReadAnalytics, CommitUpdate, Rollback, EndAnalysis, CommitDelete,
        CleanImages, TypeOK
    <3>2. ~Answer(r, "error")
      BY <1>6, <2>2 DEF Answer, Goto, TypeOK
    <3>3. CASE StartAlarm(r)
      <4>1. arg'[r] = Data(Replica)
        BY <3>2, <3>3 DEF StartAlarm, TypeOK
      <4>2. arg'[r].tc = Replica.tc
        BY <1>1, <4>1, DataType
      <4>3. QED
        BY <1>3, <1>4, <2>2, <4>2
    <3>4. CASE StartRef(r)
      <4>1. PICK n \in Modes :
              /\ mode' = [mode EXCEPT ![r] = n]
              /\ arg' = [arg EXCEPT ![r] = [Data(Master) EXCEPT !.tc = WithRef(@, n, r)]]
              /\ Goto(r, "upload")
        BY <3>2, <3>4 DEF StartRef, RowToUpdate
      <4>2. kind'[r] = "ref" /\ pc'[r] = "upload" /\ mode'[r] = n
        BY <3>4, <4>1 DEF StartRef, Arrive, Goto, TypeOK
      <4>3. Master.tc \in Tampering /\ arg'[r].tc = WithRef(Master.tc, n, r)
        BY <1>1, <4>1, DataType DEF TypeOK, CameraData
      <4>4. m # n => arg'[r].tc[m].id = Master.tc[m].id
        BY <4>3, WithRefNames
      <4>5. QED
        BY <1>3, <1>4, <2>2, <4>2, <4>4
    <3>5. QED
      BY <3>1, <3>3, <3>4
  <2>3. CASE x = r /\ pc[r] # "idle"
    <3>1. kind[r] \in {"ref", "alarm"} /\ pc[r] # "done" /\ kind'[r] = kind[r]
      BY <1>6, <2>3, StepOfOne
    <3>2. \/ Stored(arg[r].tc[m].id)
          \/ kind[r] = "ref" /\ pc[r] = "upload" /\ m = mode[r]
      BY <1>1, <3>1 DEF ImagesStored
    <3>3. CASE SaveScene(r)
      <4>1. kind[r] = "alarm"
        BY <3>3 DEF SaveScene, Paths
      <4>2. PICK n \in Modes : arg' = [arg EXCEPT ![r].tc = WithRef(arg[r].tc, n, r)]
        BY <3>3 DEF SaveScene, Modes
      <4>3. arg[r].tc \in Tampering /\ arg'[r].tc = WithRef(arg[r].tc, n, r)
        BY <4>2 DEF TypeOK, CameraData
      <4>4. arg'[r].tc[m].id \in {r, arg[r].tc[m].id}
        BY <4>3, WithRefNames
      <4>5. Stored(r)
        BY <4>1 DEF Stored
      <4>6. QED
        BY <1>4, <2>3, <3>2, <4>1, <4>4, <4>5
    <3>4. CASE Upload(r)
      <4>1. arg' = arg /\ arg[r].tc[mode[r]].id \in images'
        BY <3>4 DEF Upload
      <4>2. Kept(arg[r].tc[mode[r]].id)
        BY <4>1 DEF Kept
      <4>3. QED
        BY <1>4, <2>3, <3>2, <4>1, <4>2
    <3>5. CASE ~SaveScene(r) /\ ~Upload(r)
      <4>1. arg'[r] = arg[r]
        BY <2>3, <3>5 DEF Step, StartPut, StartRef, StartAlarm, StartDelete, Arrive, SkipScene,
          FailUpload, FindView, ReadAnalytics, CommitUpdate, Rollback, EndAnalysis, CommitDelete,
          CleanImages
      <4>2. ~(kind[r] = "ref" /\ pc[r] = "upload")
        BY <1>6, <2>3, <3>5 DEF Step, StartPut, StartRef, StartAlarm, StartDelete, Arrive, SkipScene,
          FailUpload, FindView, ReadAnalytics, CommitUpdate, Rollback, EndAnalysis, CommitDelete,
          CleanImages, Answer, Goto, TypeOK
      <4>3. QED
        BY <1>4, <2>3, <3>2, <4>1, <4>2
    <3>6. QED
      BY <3>3, <3>4, <3>5
  <2>4. QED
    BY <2>1, <2>2, <2>3
<1>7. QED
  BY <1>5, <1>6 DEF ImagesStored, Stored, Kept

LEMMA NextRewriteInv == RewriteInv /\ [Next]_vars => RewriteInv'
<1> SUFFICES ASSUME RewriteInv, [Next]_vars PROVE RewriteInv'
  OBVIOUS
<1>1. TypeInv'
  BY NextTypeOK, NextUploadHasRef DEF RewriteInv, TypeInv
<1>2. CASE UNCHANGED vars
  BY <1>1, <1>2 DEF vars, RewriteInv, SeenFinished, Paths, SnapshotAfterAnswer, ComparedStands,
    UpdatedPutsDone, FreshPutApplied, AnalyticsRead, AnalyticsReplaced, CleanedIsDeleted,
    ImagesStored, Disturbed, AddedMeanwhile, Stored, Overlap, Before, Master
<1>3. CASE Replicate
  <2>1. Master' = Master
    BY <1>3, ReplicateVersion DEF Replicate, Master, RewriteInv, TypeInv, TypeOK
  <2>2. ASSUME NEW i \in DOMAIN versions'
        PROVE  \E j \in DOMAIN versions : versions'[i] = versions[j]
    BY <1>3, <2>2, VersionsAfterReplication DEF Replicate, RewriteInv, TypeInv, TypeOK
  <2>3. ImagesStored'
    BY <1>3, <2>1, <2>2 DEF Replicate, ghosts, RewriteInv, ImagesStored, Stored
  <2>4. QED
    BY <1>1, <1>3, <2>1, <2>3 DEF Replicate, ghosts, RewriteInv, SeenFinished, Paths,
      SnapshotAfterAnswer, ComparedStands, UpdatedPutsDone, FreshPutApplied, AnalyticsRead,
      AnalyticsReplaced, CleanedIsDeleted, Disturbed, AddedMeanwhile, Overlap, Before
<1>4. ASSUME NEW r \in Requests, Step(r) PROVE RewriteInv'
  BY <1>1, <1>4, StepSeenFinished, StepPaths, StepComparedStands, StepUpdatedPutsDone,
    StepFreshPutApplied, StepAnalyticsRead, StepAnalyticsReplaced, StepCleanedIsDeleted,
    StepImagesStored DEF RewriteInv, TypeInv
<1>5. QED
  BY <1>2, <1>3, <1>4 DEF Next

LEMMA AlwaysRewriteInv == Spec => []RewriteInv
<1>1. QED
  BY InitRewriteInv, NextRewriteInv, PTL DEF Spec

\* A PUT that compared with the writer's columns is applied, all of it, although
\* only the columns that differ are written.
THEOREM FreshPutsApplied == Spec => []FreshPutApplied
<1>1. RewriteInv => FreshPutApplied
  BY DEF RewriteInv
<1>2. QED
  BY AlwaysRewriteInv, <1>1, PTL

\* updateViewDb leaves no analytics of a request that came before.
THEOREM AnalyticsNotDoubled == Spec => []AnalyticsReplaced
<1>1. RewriteInv => AnalyticsReplaced
  BY DEF RewriteInv
<1>2. QED
  BY AlwaysRewriteInv, <1>1, PTL

\* An acknowledged deletion leaves no analytics of requests before it: it reads
\* those to delete inside the transaction.
THEOREM AnalyticsRemoved == Spec => []DeletionRemovesAnalytics
<1>1. RewriteInv => DeletionRemovesAnalytics
  BY DEF RewriteInv, AnalyticsRead, AddedMeanwhile, DeletionRemovesAnalytics
<1>2. QED
  BY AlwaysRewriteInv, <1>1, PTL

\* References that PUTs record can be fetched while the camera exists, although
\* alarms carry references from a replica that lags.
THEOREM ReferencesStored == Spec => []PutReferencesStored
<1>1. RewriteInv => PutReferencesStored
  <2> SUFFICES ASSUME RewriteInv, Master.live, NEW m \in Modes,
                      Master.tc[m].id # None,
                      Master.tc[m].id \in Requests => kind[Master.tc[m].id] = "ref"
               PROVE  Master.tc[m].id \in images
    BY DEF PutReferencesStored
  <2>1. Len(versions) \in DOMAIN versions
    BY EndsAreVersions DEF RewriteInv, TypeInv, TypeOK
  <2>2. Stored(Master.tc[m].id)
    BY <2>1 DEF RewriteInv, ImagesStored, Master
  <2>3. QED
    BY <2>2 DEF Stored
<1>2. QED
  BY AlwaysRewriteInv, <1>1, PTL

\* No step lowers the snapshot flag but the commit of an alarm that has been
\* answered and had read the flag raised.
THEOREM SnapshotsClearedByAlarms == Spec => SnapshotClearedByAlarm
<1>1. RewriteInv /\ [Next]_vars =>
        [Master.snapshot /\ ~Master'.snapshot =>
           \E r \in Requests : /\ kind[r] = "alarm"
                               /\ arg[r].snapshot
                               /\ reply[r] = "ok"
                               /\ pc[r] = "commit"]_vars
  <2> SUFFICES ASSUME RewriteInv, Next, Master.snapshot, ~Master'.snapshot
               PROVE  \E r \in Requests : /\ kind[r] = "alarm" /\ arg[r].snapshot
                                          /\ reply[r] = "ok" /\ pc[r] = "commit"
    OBVIOUS
  <2>1. ~Replicate
    BY ReplicateVersion DEF Replicate, Master, RewriteInv, TypeInv, TypeOK
  <2>2. PICK r \in Requests : Step(r)
    BY <2>1 DEF Next
  <2>3. Master \in Row
    BY <2>2, RowAfter DEF RewriteInv
  <2>4. CommitUpdate(r) /\ Master' = UpdatedRow(r)
    BY <2>2, <2>3, CommitOrKeep DEF RewriteInv, RemovedRow, Row
  <2>5. kind[r] = "alarm" /\ mode[r] = "none" /\ pc[r] = "commit"
    BY <2>3, <2>4 DEF UpdatedRow, UpdatedSnapshot, Row, CommitUpdate
  <2>6. QED
    BY <2>5 DEF RewriteInv, SnapshotAfterAnswer
<1>2. QED
  BY AlwaysRewriteInv, <1>1, PTL DEF Spec, SnapshotClearedByAlarm

-----------------------------------------------------------------------------
(***************************************************************************)
(* When what the documentation and the comments say does hold.  Of a PUT   *)
(* of the configuration, FreshPutApplied says it.                          *)
(***************************************************************************)
\* An alarm's day image is a new one, and so is a night image unless the camera
\* data has a day image: the misplaced negation of IsReferenceMissing lets night
\* images be overwritten, of cameras with both, and nothing else.
AlarmsKeepDayImages ==
    \A r \in Requests : kind[r] = "alarm" =>
        /\ mode[r] = "day" => arg[r].tc["day"].id = r
        /\ mode[r] = "night" => HasRef(arg[r].tc, "day") \/ arg[r].tc["night"].id = r

\* A request has found the camera on the replica when it arrived.
Met(q) == kind[q] \notin {"none", "ref"} /\ reply[q] # "error"

\* The replica does not lose a camera that it has shown, unless it is deleted.
ReplicaHasCamera ==
    Master.live =>
        /\ \A i \in 2 .. Len(versions) : versions[i].live
        /\ (\E q \in Requests : Met(q)) => Replica.live

\* A PUT of a reference image that was answered 204 recorded it if the replica
\* had shown the camera to a request before it.
KnownReferencesRecorded ==
    Master.live =>
        \A r \in Requests :
            /\ kind[r] = "ref" /\ reply[r] = "ok"
            /\ \E q \in seen[r] : Met(q)
            => r \in saved

ErrorsEnd == \A r \in Requests : reply[r] = "error" => pc[r] = "done"

ClaimInv ==
    /\ SerialInv /\ RewriteInv /\ AlarmsKeepDayImages
    /\ ErrorsEnd /\ ReplicaHasCamera /\ KnownReferencesRecorded

\* How the four kinds of requests begin.
LEMMA StartPutFacts ==
    ASSUME NEW r \in Requests, StartPut(r)
    PROVE  /\ Arrive(r, "put") /\ mode' = mode
           /\ (reply' = reply /\ Replica.live) \/ Answer(r, "error")
BY DEF StartPut

LEMMA StartRefFacts ==
    ASSUME NEW r \in Requests, StartRef(r)
    PROVE  Arrive(r, "ref") /\ (reply' = reply \/ Answer(r, "error"))
BY DEF StartRef

LEMMA StartAlarmFacts ==
    ASSUME NEW r \in Requests, StartAlarm(r)
    PROVE  /\ Arrive(r, "alarm") /\ mode' = mode
           /\ (reply' = reply /\ Replica.live) \/ Answer(r, "error")
BY DEF StartAlarm

LEMMA StartDeleteFacts ==
    ASSUME NEW r \in Requests, StartDelete(r)
    PROVE  /\ Arrive(r, "delete") /\ mode' = mode
           /\ (reply' = reply /\ Replica.live) \/ Answer(r, "error")
BY DEF StartDelete

LEMMA StepAlarmsKeepDayImages ==
    ASSUME TypeInv, Paths, AlarmsKeepDayImages, NEW r \in Requests, Step(r)
    PROVE  AlarmsKeepDayImages'
<1> DEFINE Kept == kind'[r] = "alarm" =>
             /\ mode'[r] = "day" => arg'[r].tc["day"].id = r
             /\ mode'[r] = "night" => HasRef(arg'[r].tc, "day") \/ arg'[r].tc["night"].id = r
<1> USE DEF TypeInv, TypeOK
<1>1. Kept
  <2>1. CASE StartPut(r) \/ StartRef(r) \/ StartDelete(r)
    <3>1. kind'[r] \in {"put", "ref", "delete"}
      BY <2>1, StartPutFacts, StartRefFacts, StartDeleteFacts DEF Arrive
    <3>2. QED
      BY <3>1
  <2>2. CASE StartAlarm(r)
    <3>1. mode'[r] = mode[r] /\ pc[r] = "idle"
      BY <2>2 DEF StartAlarm, Arrive
    <3>2. mode[r] = "none"
      BY <3>1 DEF Paths
    <3>3. QED
      BY <3>1, <3>2
  <2>3. CASE SaveScene(r)
    <3>1. PICK isDayTime \in BOOLEAN :
            LET m == IF isDayTime THEN "day" ELSE "night"
            IN  /\ SavesReference(arg[r].tc, isDayTime)
                /\ mode' = [mode EXCEPT ![r] = m]
                /\ arg' = [arg EXCEPT ![r].tc = WithRef(arg[r].tc, m, r)]
      BY <2>3 DEF SaveScene
    <3> DEFINE tc == arg[r].tc
               m == IF isDayTime THEN "day" ELSE "night"
    <3>2. tc \in Tampering /\ m \in Modes /\ "day" \in Modes /\ "night" \in Modes
      BY DEF CameraData, Modes
    <3>3. SavesReference(tc, isDayTime)
      BY <3>1
    <3>4. mode'[r] = m /\ arg'[r].tc = WithRef(tc, m, r)
      BY <3>1 DEF CameraData
    <3> HIDE DEF tc, m
    <3>5. WithRef(tc, m, r)[m].id = IF HasRef(tc, m) THEN tc[m].id ELSE r
      BY <3>2 DEF WithRef, Tampering
    <3>6. CASE isDayTime
      <4>1. ~HasRef(tc, "day")
        BY <3>2, <3>3, <3>6 DEF SavesReference
      <4>2. QED
        BY <3>4, <3>5, <3>6, <4>1 DEF m
    <3>7. CASE ~isDayTime
      <4>1. HasRef(tc, "day") \/ ~HasRef(tc, "night")
        <5>1. HasRef(tc, "day") \in BOOLEAN /\ isDayTime = FALSE
          BY <3>7 DEF HasRef
        <5>2. HasRef(tc, "night") => HasRef(tc, "day") # isDayTime
          BY <3>2, <3>3 DEF SavesReference
        <5>3. QED
          BY <5>1, <5>2
      <4>2. m = "night" /\ WithRef(tc, m, r)["day"] = tc["day"]
        BY <3>2, <3>7, WithRefProperties DEF m
      <4>3. QED
        BY <3>4, <3>5, <4>1, <4>2 DEF HasRef
    <3>8. QED
      BY <3>6, <3>7
  <2>4. CASE ~StartPut(r) /\ ~StartRef(r) /\ ~StartDelete(r) /\ ~StartAlarm(r) /\ ~SaveScene(r)
    <3>1. arg' = arg /\ kind' = kind /\ mode'[r] \in {mode[r], "none"}
      BY <2>4 DEF Step, SkipScene, Upload, FailUpload, FindView, ReadAnalytics, CommitUpdate,
        Rollback, EndAnalysis, CommitDelete, CleanImages, Conclude, ghosts
    <3>2. QED
      BY <3>1 DEF AlarmsKeepDayImages
  <2>5. QED
    BY <2>1, <2>2, <2>3, <2>4
<1> HIDE DEF Kept
<1>2. QED
  BY <1>1, StepOfOne DEF AlarmsKeepDayImages, Kept

\* A request that is not past its look-up of the camera has not failed, and one
\* that has just met the camera found it on the replica.
LEMMA StepMet ==
    ASSUME TypeInv, Paths, ErrorsEnd, NEW r \in Requests, Step(r)
    PROVE  /\ ErrorsEnd'
           /\ \A q \in Requests : Met(q)' => Met(q) \/ Replica.live
           /\ \A q \in Requests : pc[q] = "done" => (Met(q)' <=> Met(q))
<1> USE DEF TypeInv, TypeOK
<1>1. reply[r] # "error"
  BY StepOfOne DEF ErrorsEnd
<1>2. reply'[r] = "error" => pc'[r] = "done"
  <2>1. CASE StartPut(r) \/ StartRef(r) \/ StartAlarm(r) \/ StartDelete(r)
    <3>1. reply' = reply \/ Answer(r, "error")
      BY <2>1, StartPutFacts, StartRefFacts, StartAlarmFacts, StartDeleteFacts
    <3>2. QED
      BY <1>1, <3>1 DEF Answer, Goto
  <2>2. CASE FindView(r) \/ CommitUpdate(r) \/ Rollback(r)
    BY <1>1, <2>2 DEF FindView, CommitUpdate, Rollback, Conclude, Answer, Goto
  <2>3. CASE FailUpload(r) \/ EndAnalysis(r) \/ CleanImages(r)
    BY <1>1, <2>3 DEF FailUpload, EndAnalysis, CleanImages, Answer, Goto
  <2>4. CASE SkipScene(r) \/ SaveScene(r) \/ Upload(r) \/ ReadAnalytics(r) \/ CommitDelete(r)
    BY <1>1, <2>4 DEF SkipScene, SaveScene, Upload, ReadAnalytics, CommitDelete, ghosts
  <2>5. QED
    BY <2>1, <2>2, <2>3, <2>4 DEF Step
<1>3. ErrorsEnd'
  BY <1>2, StepOfOne DEF ErrorsEnd
<1>4. Met(r)' => Met(r) \/ Replica.live
  <2>1. CASE pc[r] # "idle"
    BY <1>1, <2>1, StepOfOne DEF Met
  <2>2. CASE pc[r] = "idle"
    <3>1. StartPut(r) \/ StartRef(r) \/ StartAlarm(r) \/ StartDelete(r)
      BY <2>2 DEF Step, SkipScene, SaveScene, Upload, FailUpload, FindView, ReadAnalytics,
        CommitUpdate, Rollback, EndAnalysis, CommitDelete, CleanImages
    <3>2. CASE StartRef(r)
      BY <3>2 DEF StartRef, Arrive, Met
    <3>3. CASE StartPut(r) \/ StartAlarm(r) \/ StartDelete(r)
      <4>1. Replica.live \/ Answer(r, "error")
        BY <3>3, StartPutFacts, StartAlarmFacts, StartDeleteFacts
      <4>2. QED
        BY <4>1 DEF Answer, Met
    <3>4. QED
      BY <3>1, <3>2, <3>3
  <2>3. QED
    BY <2>1, <2>2
<1>5. QED
  BY <1>3, <1>4, StepOfOne DEF Met

LEMMA StepReplicaHasCamera ==
    ASSUME TypeInv, Paths, ErrorsEnd, ReplicaHasCamera, NEW r \in Requests, Step(r)
    PROVE  ReplicaHasCamera'
<1> SUFFICES ASSUME Master'.live
             PROVE  /\ \A i \in 2 .. Len(versions') : versions'[i].live
                    /\ (\E q \in Requests : Met(q)') => Replica'.live
  BY DEF ReplicaHasCamera
<1> USE DEF TypeInv, TypeOK
<1>1. Master.live /\ ~CommitDelete(r)
  BY RowAfter
<1>2. (\E q \in Requests : Met(q)') => Replica.live
  BY <1>1, StepMet DEF ReplicaHasCamera
<1>3. Len(versions) \in Nat /\ Len(versions) # 0 /\ DOMAIN versions = 1 .. Len(versions)
  BY EmptySeq
<1>4. CASE CommitUpdate(r) /\ Master' = UpdatedRow(r)
  <2>1. UpdatedRow(r) \in Row
    BY EndsAreRows, UpdatedRowType
  <2>2. versions' = Append(versions, UpdatedRow(r)) /\ Replica' = Replica
    BY <1>4, <2>1, CommitVersion DEF CommitUpdate, Replica
  <2>3. \A i \in 1 .. Len(versions') :
          versions'[i] = UpdatedRow(r) \/ (i \in 1 .. Len(versions) /\ versions'[i] = versions[i])
    BY <1>3, <2>1, <2>2, VersionsAfterCommit
  <2>4. \A i \in 2 .. Len(versions') : versions'[i].live
    BY <1>1, <1>4, <2>3 DEF ReplicaHasCamera
  <2>5. QED
    BY <1>2, <2>2, <2>4
<1>5. CASE versions' = versions
  BY <1>1, <1>2, <1>5 DEF ReplicaHasCamera, Replica
<1>6. QED
  BY <1>1, <1>4, <1>5, CommitOrKeep

LEMMA StepKnownReferencesRecorded ==
    ASSUME ClaimInv, NEW r \in Requests, Step(r)
    PROVE  KnownReferencesRecorded'
<1> USE DEF ClaimInv, RewriteInv, TypeInv, TypeOK
<1> SUFFICES ASSUME Master'.live, NEW x \in Requests,
                    kind'[x] = "ref", reply'[x] = "ok", NEW q \in seen'[x], Met(q)'
             PROVE  x \in saved'
  BY DEF KnownReferencesRecorded
<1>1. Master.live /\ saved \subseteq saved'
  BY RowAfter, SaveOrKeep
<1>2. q \in Requests /\ pc[q] = "done" /\ Met(q)
  <2>1. q \in Requests /\ pc[q] = "done"
    BY StepOfOne DEF SeenFinished, Finished
  <2>2. QED
    BY <2>1, StepMet
<1>3. CASE x # r
  <2>1. kind[x] = "ref" /\ reply[x] = "ok" /\ q \in seen[x]
    BY <1>3, StepOfOne
  <2>2. QED
    BY <1>1, <1>2, <2>1 DEF KnownReferencesRecorded
<1>4. CASE x = r
  <2>1. Replica.live
    BY <1>1, <1>2 DEF ReplicaHasCamera
  <2>2. CASE pc[r] = "idle"
    <3>1. StartRef(r)
      <4>1. ~StartPut(r) /\ ~StartAlarm(r) /\ ~StartDelete(r)
        BY <1>4, StartPutFacts, StartAlarmFacts, StartDeleteFacts DEF Arrive
      <4>2. QED
        BY <2>2, <4>1 DEF Step, SkipScene, SaveScene, Upload, FailUpload, FindView,
          ReadAnalytics, CommitUpdate, Rollback, EndAnalysis, CommitDelete, CleanImages
    <3>2. reply[r] = "none"
      BY <2>2 DEF Paths
    <3>3. QED
      BY <1>4, <3>1, <3>2 DEF StartRef, Answer
  <2>3. CASE pc[r] # "idle"
    <3>1. kind[r] = "ref" /\ seen'[r] = seen[r] /\ pc[r] # "done"
      BY <1>4, <2>3, StepOfOne
    <3>2. CASE reply[r] = "ok"
      BY <1>1, <1>2, <1>4, <3>1, <3>2 DEF KnownReferencesRecorded
    <3>3. CASE reply[r] # "ok"
      <4>1. CommitUpdate(r)
        <5>1. ~FindView(r) /\ ~Rollback(r)
          BY <1>4, <2>1, <3>1, <3>3 DEF FindView, Rollback, Conclude, Answer
        <5>2. ~FailUpload(r) /\ ~EndAnalysis(r) /\ ~CleanImages(r)
          BY <1>4, <3>1, <3>3 DEF FailUpload, EndAnalysis, CleanImages, Answer, Paths
        <5>3. ~StartPut(r) /\ ~StartRef(r) /\ ~StartAlarm(r) /\ ~StartDelete(r)
          BY <2>3, StartPutFacts, StartRefFacts, StartAlarmFacts, StartDeleteFacts DEF Arrive
        <5>4. /\ ~SkipScene(r) /\ ~SaveScene(r) /\ ~Upload(r) /\ ~ReadAnalytics(r)
              /\ ~CommitDelete(r)
          BY <1>4, <3>3 DEF SkipScene, SaveScene, Upload, ReadAnalytics, CommitDelete
        <5>5. QED
          BY <5>1, <5>2, <5>3, <5>4 DEF Step
      <4>2. mode[r] # "none"
        BY <3>1, <4>1 DEF CommitUpdate, CarriesReferences, SerialInv, Modes
      <4>3. QED
        BY <1>1, <1>4, <4>1, <4>2 DEF CommitUpdate
    <3>4. QED
      BY <3>2, <3>3
  <2>4. QED
    BY <2>2, <2>3
<1>5. QED
  BY <1>3, <1>4

LEMMA NextClaimInv == ClaimInv /\ [Next]_vars => ClaimInv'
<1> SUFFICES ASSUME ClaimInv, [Next]_vars PROVE ClaimInv'
  OBVIOUS
<1>1. SerialInv' /\ RewriteInv'
  BY NextSerialInv, NextRewriteInv DEF ClaimInv
<1>2. CASE UNCHANGED vars
  BY <1>1, <1>2 DEF vars, ClaimInv, AlarmsKeepDayImages, ErrorsEnd, ReplicaHasCamera,
    KnownReferencesRecorded, Met, Master, Replica
<1>3. CASE Replicate
  <2>1. Master' = Master /\ UNCHANGED <<kind, pc, arg, mode, reply, seen, saved>>
    BY <1>3, ReplicateVersion
    DEF Replicate, Master, ghosts, ClaimInv, RewriteInv, TypeInv, TypeOK
  <2>2. AlarmsKeepDayImages' /\ ErrorsEnd' /\ KnownReferencesRecorded'
    BY <2>1 DEF ClaimInv, AlarmsKeepDayImages, ErrorsEnd, KnownReferencesRecorded, Met
  <2>3. ReplicaHasCamera'
    <3>1. /\ versions' = Tail(versions) /\ Len(versions) > 1 /\ versions \in Seq(Row)
          /\ Len(versions) \in Nat /\ versions # <<>>
      BY <1>3, EmptySeq DEF Replicate, ClaimInv, RewriteInv, TypeInv, TypeOK
    <3>2. /\ Len(versions') = Len(versions) - 1
          /\ \A i \in 1 .. Len(versions') : versions'[i] = versions[i + 1]
      BY <3>1, HeadTailProperties
    <3>3. Master.live => \A i \in 1 .. Len(versions') : versions'[i].live
      <4>1. ASSUME NEW i \in 1 .. Len(versions')
            PROVE  i + 1 \in 2 .. Len(versions)
        BY <3>1, <3>2
      <4>2. QED
        BY <3>2, <4>1 DEF ClaimInv, ReplicaHasCamera
    <3>4. 1 \in 1 .. Len(versions') /\ \A i \in 2 .. Len(versions') : i \in 1 .. Len(versions')
      BY <3>1, <3>2
    <3>5. QED
      BY <2>1, <3>3, <3>4 DEF ReplicaHasCamera, Replica
  <2>4. QED
    BY <1>1, <2>2, <2>3 DEF ClaimInv
<1>4. ASSUME NEW r \in Requests, Step(r) PROVE ClaimInv'
  BY <1>1, <1>4, StepAlarmsKeepDayImages, StepMet, StepReplicaHasCamera,
    StepKnownReferencesRecorded DEF ClaimInv, RewriteInv
<1>5. QED
  BY <1>2, <1>3, <1>4 DEF Next

LEMMA InitClaimInv == Init => ClaimInv
<1> SUFFICES ASSUME Init PROVE ClaimInv
  OBVIOUS
<1>1. PICK c \in Configs, tc \in [Modes -> {NoRef, [id |-> Earlier, at |-> Earlier]}],
           s \in BOOLEAN :
        LET created == [live |-> TRUE, config |-> c, tc |-> tc,
                        analytics |-> {Earlier}, snapshot |-> s]
        IN  versions \in {<<created>>,
                          <<[created EXCEPT !.live = FALSE, !.analytics = {}], created>>}
  BY DEF Init
<1> DEFINE created == [live |-> TRUE, config |-> c, tc |-> tc,
                       analytics |-> {Earlier}, snapshot |-> s]
           before == [created EXCEPT !.live = FALSE, !.analytics = {}]
<1>2. created.live = TRUE
  OBVIOUS
<1>3. versions = <<created>> \/ versions = <<before, created>>
  BY <1>1
<1> HIDE DEF created, before
<1>4. \A i \in 2 .. Len(versions) : versions[i].live
  <2>1. CASE versions = <<created>>
    BY <2>1
  <2>2. CASE versions = <<before, created>>
    <3>1. Len(versions) = 2 /\ versions[2] = created
      BY <2>2
    <3>2. QED
      BY <1>2, <3>1
  <2>3. QED
    BY <1>3, <2>1, <2>2
<1>5. \A q \in Requests : kind[q] = "none" /\ reply[q] = "none"
  BY DEF Init
<1>6. ReplicaHasCamera
  BY <1>4, <1>5 DEF ReplicaHasCamera, Met
<1>7. AlarmsKeepDayImages /\ ErrorsEnd /\ KnownReferencesRecorded
  BY <1>5 DEF AlarmsKeepDayImages, ErrorsEnd, KnownReferencesRecorded
<1>8. QED
  BY <1>6, <1>7, InitSerialInv, InitRewriteInv DEF ClaimInv

LEMMA AlwaysClaimInv == Spec => []ClaimInv
<1>1. QED
  BY InitClaimInv, NextClaimInv, PTL DEF Spec

\* maybeSaveMissingReference, called though no reference is missing, overwrites
\* the night image of a camera that has both, never its day image.
THEOREM AlarmsSpareDayImages == Spec => []AlarmsKeepDayImages
<1>1. ClaimInv => AlarmsKeepDayImages
  BY DEF ClaimInv
<1>2. QED
  BY AlwaysClaimInv, <1>1, PTL

\* The 204 for a reference image is true once the replica has shown the camera
\* to a request that had finished before: only of a camera that has just been
\* created is an image acknowledged and not recorded.
THEOREM KnownReferencesAreRecorded == Spec => []KnownReferencesRecorded
<1>1. ClaimInv => KnownReferencesRecorded
  BY DEF ClaimInv
<1>2. QED
  BY AlwaysClaimInv, <1>1, PTL
=============================================================================
