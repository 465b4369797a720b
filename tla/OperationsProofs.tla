-------------------------- MODULE OperationsProofs --------------------------
(***************************************************************************)
(* Proofs about Settings and Operations: saved settings take precedence    *)
(* over every environment, the log tail is bounded, secrets are guarded,   *)
(* and a success that is recorded for a restart is a restart.              *)
(***************************************************************************)
EXTENDS Settings, Operations, TLAPS

-----------------------------------------------------------------------------
(* Settings. *)

LEMMA Texts ==
  /\ Key = {"idle", "tail", "masking"}
  /\ TextOf["idle"] = Duration \cup {Junk}
  /\ TextOf["tail"] = Count \cup {Junk}
  /\ TextOf["masking"] = {"true", "false", Junk}
BY DEF TextOf, Key

\* A row an administrator has saved holds what was saved, and a timeout was
\* only saved when it was valid.
SavedIsStored ==
  /\ \A k \in Key : saved[k] # None => stored[k] = saved[k]
  /\ saved["idle"] # None => ValidIdle(saved["idle"])

\* Where masking is off somebody has switched it off, and a document that is
\* not masked goes to a user who may see it.
OffIsKnown ==
  /\ stored["masking"] = "false" => off
  /\ ~cfg.masking => off

ViewDecided ==
  view.pc # "none" /\ view.secret => view.can /\ (view.reveal \/ off)

Tables ==
  /\ stored = [k \in Key |-> stored[k]]
  /\ saved = [k \in Key |-> saved[k]]

SettingsInv == SettingsTypeOK /\ Tables /\ SavedIsStored /\ OffIsKnown /\ ViewDecided

\* config.Load gives a configuration whatever the environment holds.
LEMMA LoadConfig ==
  ASSUME NEW i \in TextOf["idle"], NEW t \in TextOf["tail"], NEW m \in TextOf["masking"]
  PROVE  Load([idle |-> i, tail |-> t, masking |-> m]) \in Config
BY SettingsAssumption, Texts DEF Load, Config

\* What EnsureSettings inserts is a text of its key.
LEMMA FormatText ==
  ASSUME SettingsTypeOK, NEW k \in Key
  PROVE  Format(k) \in Row(k)
<1>1. cfg.idle \in Duration /\ cfg.tail \in Count
  BY DEF SettingsTypeOK, Config
<1>2. CASE k = "idle"
  BY <1>1, <1>2, Texts DEF Format, Row
<1>3. CASE k = "tail"
  BY <1>1, <1>3, Texts DEF Format, Row
<1>4. CASE k = "masking"
  BY <1>4, Texts DEF Format, Row
<1> QED
  BY <1>2, <1>3, <1>4 DEF Key

LEMMA SettingsInitInv == SettingsInit => SettingsInv
<1> SUFFICES ASSUME SettingsInit PROVE SettingsInv
  OBVIOUS
<1>1. cfg \in Config /\ cfg.masking
  BY SettingsAssumption DEF SettingsInit, Load, Config, Key
<1>2. view \in View /\ ViewDecided
  BY DEF SettingsInit, NoView, View, ViewDecided
<1>3. OffIsKnown
  BY <1>1, SettingsAssumption DEF SettingsInit, OffIsKnown, Key
<1> QED
  BY <1>1, <1>2, <1>3 DEF SettingsInit, SettingsInv, SettingsTypeOK, Tables, SavedIsStored, Row, Key

\* Once masking has been switched off it counts as off for good.
LEMMA OffStep ==
  ASSUME off \in BOOLEAN, NEW x \in BOOLEAN, off' = (off \/ x)
  PROVE  off' \in BOOLEAN /\ (off => off') /\ (x => off')
BY Zenon

LEMMA SettingsStep == SettingsInv /\ [SettingsNext]_settingsVars => SettingsInv'
<1> SUFFICES ASSUME SettingsInv, [SettingsNext]_settingsVars PROVE SettingsInv'
  OBVIOUS
<1> USE DEF SettingsInv, settingVars
<1>0. off \in BOOLEAN
  BY DEF SettingsTypeOK
<1>v. ASSUME view' = view, off => off' PROVE ViewDecided'
  BY <1>v DEF ViewDecided
<1>o. ASSUME UNCHANGED <<cfg, stored, off>> PROVE OffIsKnown'
  BY <1>o DEF OffIsKnown
\* A step of container, which changes no setting.
<1>s. ASSUME UNCHANGED settingVars, view' \in View, ViewDecided' PROVE SettingsInv'
  <2>1. SettingsTypeOK' /\ Tables' /\ SavedIsStored'
    BY <1>s DEF SettingsTypeOK, Tables, SavedIsStored, ValidIdle
  <2> QED
    BY <1>o, <1>s, <2>1
<1>1. ASSUME NEW i \in TextOf["idle"], NEW t \in TextOf["tail"], NEW m \in TextOf["masking"],
             Start(i, t, m)
      PROVE  SettingsInv'
  <2>1. off' \in BOOLEAN /\ (off => off') /\ (m = "false" => off')
    BY <1>0, <1>1, OffStep DEF Start
  <2>2. cfg' \in Config /\ (~cfg'.masking => m = "false")
    BY <1>1, LoadConfig DEF Start, Load
  <2>3. /\ process' = "starting" /\ todo' = Key
        /\ stored' = stored /\ saved' = saved /\ view' = view
    BY <1>1 DEF Start
  <2>4. SettingsTypeOK'
    BY <2>1, <2>2, <2>3 DEF SettingsTypeOK
  <2>5. Tables' /\ SavedIsStored'
    BY <2>3 DEF Tables, SavedIsStored, ValidIdle
  <2>6. OffIsKnown'
    BY <2>1, <2>2, <2>3 DEF OffIsKnown
  <2> QED
    BY <1>v, <2>1, <2>3, <2>4, <2>5, <2>6
<1>2. ASSUME NEW k \in Key, EnsureSetting(k) PROVE SettingsInv'
  <2>1. /\ stored' = [j \in Key |-> IF j = k /\ stored[j] = None THEN Format(k) ELSE stored[j]]
        /\ UNCHANGED <<process, cfg, saved, off, view>> /\ todo' = todo \ {k}
    BY <1>2 DEF EnsureSetting, Tables
  <2>2. SettingsTypeOK'
    BY <2>1, FormatText DEF SettingsTypeOK
  <2>3. SavedIsStored'
    BY <2>1 DEF SavedIsStored, ValidIdle
  <2>4. stored'["masking"] = "false" => stored["masking"] = "false" \/ ~cfg.masking
    BY <2>1 DEF Key, Format
  <2>5. OffIsKnown'
    BY <2>1, <2>4 DEF OffIsKnown
  <2>6. Tables'
    BY <2>1 DEF Tables
  <2> QED
    BY <1>v, <2>1, <2>2, <2>3, <2>5, <2>6
<1>3. CASE Serve
  <2>1. SettingsTypeOK' /\ Tables' /\ SavedIsStored'
    BY <1>3 DEF Serve, SettingsTypeOK, Tables, SavedIsStored, ValidIdle
  <2> QED
    BY <1>o, <1>v, <1>3, <2>1 DEF Serve
<1>4. CASE Exit
  <2>1. view' \in View /\ ViewDecided'
    BY <1>4 DEF Exit, NoView, View, ViewDecided
  <2>2. SettingsTypeOK' /\ Tables' /\ SavedIsStored'
    BY <1>4, <2>1 DEF Exit, SettingsTypeOK, Tables, SavedIsStored, ValidIdle
  <2> QED
    BY <1>o, <1>4, <2>1, <2>2 DEF Exit
<1>5. ASSUME NEW m, \A k \in Key : m[k] \in Row(k), UpdateSettings(m) PROVE SettingsInv'
  <2>1. /\ \A k \in Key : stored'[k] = IF m[k] # None THEN m[k] ELSE stored[k]
        /\ \A k \in Key : saved'[k] = IF m[k] # None THEN m[k] ELSE saved[k]
        /\ Tables'
    BY <1>5 DEF UpdateSettings, Tables
  <2>2. off' \in BOOLEAN /\ (off => off') /\ (m["masking"] = "false" => off')
    BY <1>0, <1>5, OffStep DEF UpdateSettings
  <2>3. "idle" \in Key /\ "masking" \in Key
    BY DEF Key
  <2>4. UNCHANGED <<process, cfg, todo, view>>
    BY <1>5 DEF UpdateSettings
  <2>5. SettingsTypeOK'
    BY <1>5, <2>1, <2>2, <2>4 DEF SettingsTypeOK
  <2>6. SavedIsStored'
    BY <1>5, <2>1, <2>3 DEF UpdateSettings, ValidUpdate, SavedIsStored, ValidIdle
  <2>7. OffIsKnown'
    BY <2>1, <2>2, <2>3, <2>4 DEF OffIsKnown
  <2> QED
    BY <1>v, <2>1, <2>2, <2>4, <2>5, <2>6, <2>7
<1>6. ASSUME NEW can \in BOOLEAN, NEW reveal \in BOOLEAN, NEW readable \in BOOLEAN,
             Inspect(can, reveal, readable)
      PROVE  SettingsInv'
  <2>1. PICK masking \in BOOLEAN : masking = Masking(readable)
    BY DEF Masking, SettingsTypeOK, Config
  <2>2. PICK secret \in BOOLEAN : secret = ~Hidden(can, reveal, masking)
    BY DEF Hidden
  <2>3. view' = [pc |-> "event", can |-> can, reveal |-> reveal,
                 secret |-> secret, event |-> "none"]
    BY <1>6, <2>1, <2>2 DEF Inspect
  <2>4. view' \in View
    BY <2>3 DEF View
  <2>5. ~masking => off
    BY <2>1 DEF Masking, OffIsKnown
  <2>6. secret => can /\ (reveal \/ off)
    BY <1>6, <2>2, <2>5 DEF Inspect, Hidden
  <2>7. UNCHANGED settingVars
    BY <1>6 DEF Inspect
  <2>8. ViewDecided'
    BY <2>3, <2>6, <2>7 DEF ViewDecided
  <2> QED
    BY <1>s, <2>4, <2>7, <2>8
<1>7. CASE InspectAudit
  <2>1. view' \in View /\ UNCHANGED settingVars
    BY <1>7 DEF InspectAudit, SettingsTypeOK, View
  <2>2. ViewDecided'
    BY <1>7, <2>1 DEF InspectAudit, SettingsTypeOK, View, ViewDecided
  <2> QED
    BY <1>s, <2>1, <2>2
<1>8. CASE InspectRespond
  <2>1. view' \in View /\ UNCHANGED settingVars
    BY <1>8 DEF InspectRespond, SettingsTypeOK, View
  <2>2. ViewDecided'
    BY <1>8, <2>1 DEF InspectRespond, SettingsTypeOK, View, ViewDecided
  <2> QED
    BY <1>s, <2>1, <2>2
<1>9. CASE UNCHANGED settingsVars
  <2>1. UNCHANGED settingVars /\ view' = view
    BY <1>9 DEF settingsVars
  <2>2. view' \in View
    BY <2>1 DEF SettingsTypeOK
  <2> QED
    BY <1>s, <1>v, <2>1, <2>2
<1>10. ASSUME NEW i \in Row("idle"), NEW t \in Row("tail"), NEW m \in Row("masking"),
              UpdateSettings([k \in Key |-> CASE k = "idle" -> i [] k = "tail" -> t
                                              [] k = "masking" -> m])
       PROVE  SettingsInv'
  <2> DEFINE r == [k \in Key |-> CASE k = "idle" -> i [] k = "tail" -> t [] k = "masking" -> m]
  <2>1. \A k \in Key : r[k] \in Row(k)
    BY DEF Key
  <2> HIDE DEF r
  <2> QED
    BY <1>5, <1>10, <2>1 DEF r
<1> QED
  BY <1>1, <1>2, <1>3, <1>4, <1>6, <1>7, <1>8, <1>9, <1>10 DEF SettingsNext

LEMMA SettingsInvAlways == SettingsSpec => []SettingsInv
BY SettingsInitInv, SettingsStep, PTL DEF SettingsSpec

(***************************************************************************)
(* A value an administrator saved and that is usable governs terminalIdle, *)
(* defaultLogTail and the masking of container from then on, whatever the  *)
(* environment of later starts holds and wherever a start died in          *)
(* EnsureSettings.                                                         *)
(***************************************************************************)
THEOREM SavedGoverns == SettingsSpec => []SavedTakesPrecedence
<1>1. SettingsInv => SavedTakesPrecedence
  <2> SUFFICES ASSUME SettingsInv PROVE SavedTakesPrecedence
    OBVIOUS
  <2>1. {"idle", "tail", "masking"} \subseteq Key
    BY DEF Key
  <2>2. saved["idle"] # None => TerminalIdle(TRUE) = saved["idle"]
    BY <2>1 DEF SettingsInv, SavedIsStored, TerminalIdle
  <2>3. saved["tail"] \in Count /\ saved["tail"] \in 1 .. MaxTail
          => DefaultLogTail(TRUE) = saved["tail"]
    BY <2>1, SettingsAssumption DEF SettingsInv, SavedIsStored, DefaultLogTail, ParseBoundedInt
  <2>4. saved["masking"] # None
          => (Masking(TRUE) <=> cfg.masking /\ saved["masking"] # "false")
    BY <2>1 DEF SettingsInv, SavedIsStored, Masking
  <2> QED
    BY <2>2, <2>3, <2>4 DEF SavedTakesPrecedence
<1> QED
  BY <1>1, SettingsInvAlways, PTL

(***************************************************************************)
(* logs asks Docker for 1 to MaxTail lines, and for exactly as many as the *)
(* request names in that range: the Gateway's own ParseBoundedInt is what  *)
(* guarantees it for every configuration and every table.                  *)
(***************************************************************************)
THEOREM TailBounded == SettingsSpec => []LogTailBounded
<1>1. \A raw, fallback : /\ ParseBoundedInt(raw, fallback) = raw \/ raw \notin 1 .. MaxTail
                         /\ \/ ParseBoundedInt(raw, fallback) \in 1 .. MaxTail
                            \/ ParseBoundedInt(raw, fallback) = fallback
  BY DEF ParseBoundedInt
<1>2. LogTailBounded
  BY <1>1, SettingsAssumption DEF LogTailBounded, LogTail, GatewayTail
<1> QED
  BY <1>2, PTL

(***************************************************************************)
(* container shows unmasked values only to a session with secret.view, and *)
(* without a reveal only when the environment of some start or an          *)
(* administrator has switched masking off, whatever is saved or restarted  *)
(* between its steps and whether or not the settings can be read.          *)
(***************************************************************************)
THEOREM SecretsKept == SettingsSpec => []SecretsGuarded
<1>1. SettingsInv => SecretsGuarded
  BY DEF SettingsInv, ViewDecided, SecretsGuarded
<1> QED
  BY <1>1, SettingsInvAlways, PTL

-----------------------------------------------------------------------------
(* Operations. *)

\* A success travels from Docker through the Gateway and the Server to the
\* audit trail, and each stage has it from the one before.
RealRestart ==
  op = "restart" =>
    /\ dk = "done" => restarted
    /\ gw = "answered" => restarted
    /\ result = "success" => restarted
    /\ "success" \in events => restarted

LEMMA RealRestartStep == RealRestart /\ [OperationsNext]_operationVars => RealRestart'
<1> SUFFICES ASSUME RealRestart, [OperationsNext]_operationVars PROVE RealRestart'
  OBVIOUS
<1> USE DEF RealRestart, operationVars, serverVars, gatewayVars, Following
<1>1. CASE Call \/ Timeout \/ CallFails \/ CallAnswered \/ Headers
  BY <1>1 DEF Call, Timeout, CallFails, Fail, CallAnswered, Headers
<1>2. CASE Record \/ RecordFails
  BY <1>2 DEF Record, RecordFails
<1>3. CASE Read \/ Send \/ ReadEnds \/ Cut \/ Respond \/ BrowserLeaves \/ ServerStops
  BY <1>3 DEF Read, Send, ReadEnds, Cut, Respond, BrowserLeaves, ServerStops
<1>4. CASE Inspected \/ InspectRefused \/ InspectCancelled \/ CallDocker
  BY <1>4 DEF Inspected, InspectRefused, InspectCancelled, CallDocker, GwGo
<1>5. CASE DockerReplied \/ DockerCallCancelled
  BY <1>5 DEF DockerReplied, DockerCallCancelled, GwGo
<1>6. CASE PipePasses \/ CopyEnds \/ CopyFails
  BY <1>6 DEF PipePasses, CopyEnds, CopyFails
<1>7. CASE BodyEnds \/ WriteFails
  BY <1>7 DEF BodyEnds, WriteFails, HandlerReturns
<1>8. CASE GatewayDies
  BY <1>8 DEF GatewayDies
<1>9. CASE DockerDone \/ DockerFails \/ DockerEmits \/ DockerEnds
  BY <1>9 DEF DockerDone, DockerFails, DockerEmits, DockerEnds
<1>10. CASE UNCHANGED operationVars
  BY <1>10
<1> QED
  BY <1>1, <1>2, <1>3, <1>4, <1>5, <1>6, <1>7, <1>8, <1>9, <1>10
  DEF OperationsNext, ServerStep, GatewayStep, CopierStep

(***************************************************************************)
(* When the audit trail says that a restart succeeded, Docker restarted    *)
(* the container: no timeout, cancellation, crash or early answer on the   *)
(* way between restart, GatewayClient and Docker makes a success up.       *)
(***************************************************************************)
THEOREM SuccessReal == OperationsSpec => []SuccessIsReal
<1>1. OperationsInit => RealRestart
  BY DEF OperationsInit, RealRestart
<1>2. RealRestart => SuccessIsReal
  BY DEF RealRestart, SuccessIsReal
<1> QED
  BY <1>1, <1>2, RealRestartStep, PTL DEF OperationsSpec
=============================================================================
