------------------------------ MODULE Settings ------------------------------
(***************************************************************************)
(* Settings: config.Load reads the environment when the server starts,     *)
(* EnsureSettings copies it into SQLite where a key has no row,            *)
(* updateSettings changes rows, and the handlers combine both each time    *)
(* they need a value.  Neither side validates all it accepts: the          *)
(* environment may hold any tail and any positive timeout, the             *)
(* administrator may save any text for a tail or for masking.              *)
(*                                                                         *)
(* container, which shows an inspected container with or without its       *)
(* secrets, is the reader whose answer depends on a setting.               *)
(*                                                                         *)
(* Keys: "idle" is terminal_idle_timeout, "tail" default_log_tail,         *)
(* "masking" secret_masking.  instance_name and environment are only       *)
(* displayed and are left out.                                             *)
(***************************************************************************)
EXTENDS Integers

CONSTANTS Duration, \* durations a text may hold
          Count,    \* numbers a text may hold
          Junk,     \* a text that is neither, or is empty
          None,     \* no row
          MinIdle, MaxIdle, \* a minute and eight hours
          MaxTail,  \* 5000
          DefaultIdle, DefaultTail \* of config.Load; the tail's is the Gateway's too

ASSUME SettingsAssumption ==
  /\ Duration \subseteq Int /\ Count \subseteq Int
  /\ Junk \notin Int /\ None \notin Int /\ Junk # None
  /\ Junk \notin {"true", "false"} /\ None \notin {"true", "false"}
  /\ MinIdle \in Nat \ {0} /\ DefaultIdle \in Duration \cap MinIdle .. MaxIdle
  /\ DefaultTail \in Count \cap 1 .. MaxTail

Key == {"idle", "tail", "masking"}

\* What a text may be for each key, in the environment or in a request.
TextOf ==
  [k \in Key |-> CASE k = "idle" -> Duration \cup {Junk}
                   [] k = "tail" -> Count \cup {Junk}
                   [] k = "masking" -> {"true", "false", Junk}]

VARIABLES process, \* "down", "starting" or "up"
          cfg,     \* config.Config of the process
          todo,    \* keys EnsureSettings has still to insert
          stored,  \* table settings
          saved,   \* history: what administrators saved last
          off,     \* history: the environment of a start, or an administrator,
                   \* has switched masking off
          view     \* the request container is handling, or handled last

settingVars == <<process, cfg, todo, stored, saved, off>>
settingsVars == <<settingVars, view>>

Row(k) == TextOf[k] \cup {None}

Config == [idle: Duration, tail: Count, masking: BOOLEAN]

\* 'secret': the document is not masked; 'event': the event written for it.
View == [pc: {"none", "event", "answer", "shown"}, can: BOOLEAN, reveal: BOOLEAN,
         secret: BOOLEAN, event: {"none", "SECRET_REVEAL", "CONTAINER_INSPECT"}]

NoView == [pc |-> "none", can |-> FALSE, reveal |-> FALSE, secret |-> FALSE,
           event |-> "none"]

SettingsTypeOK ==
  /\ process \in {"down", "starting", "up"}
  /\ cfg \in Config
  /\ todo \subseteq Key
  /\ \A k \in Key : stored[k] \in Row(k) /\ saved[k] \in Row(k)
  /\ off \in BOOLEAN
  /\ view \in View

-----------------------------------------------------------------------------
\* duration, integer and boolean of config.go: a text that does not parse, and
\* a duration that is not positive, give the default.
Load(raw) ==
  [idle |-> IF raw.idle # Junk /\ raw.idle > 0 THEN raw.idle ELSE DefaultIdle,
   tail |-> IF raw.tail # Junk THEN raw.tail ELSE DefaultTail,
   masking |-> raw.masking # "false"]

\* The values main gives to EnsureSettings.
Format(k) ==
  IF k = "masking" THEN IF cfg.masking THEN "true" ELSE "false" ELSE cfg[k]

SettingsInit ==
  /\ process = "down" /\ todo = {}
  /\ cfg = Load([k \in Key |-> Junk])
  /\ stored = [k \in Key |-> None] /\ saved = [k \in Key |-> None]
  /\ off = FALSE
  /\ view = NoView

-----------------------------------------------------------------------------
Start(idle, tail, masking) ==
  /\ process = "down"
  /\ process' = "starting"
  /\ cfg' = Load([idle |-> idle, tail |-> tail, masking |-> masking])
  /\ todo' = Key
  /\ off' = (off \/ masking = "false")
  /\ UNCHANGED <<stored, saved, view>>

\* Mutant of EnsureSetting: the insert replaces the row.
EnsureSettingReplaces(k) ==
  /\ process = "starting" /\ k \in todo
  /\ stored' = [stored EXCEPT ![k] = Format(k)]
  /\ todo' = todo \ {k}
  /\ UNCHANGED <<process, cfg, saved, off, view>>

\* One round of the loop of EnsureSettings: INSERT OR IGNORE.
EnsureSetting(k) ==
  /\ process = "starting" /\ k \in todo
  /\ stored' = IF stored[k] = None THEN [stored EXCEPT ![k] = Format(k)] ELSE stored
  /\ todo' = todo \ {k}
  /\ UNCHANGED <<process, cfg, saved, off, view>>

Serve ==
  /\ process = "starting" /\ todo = {}
  /\ process' = "up"
  /\ UNCHANGED <<cfg, todo, stored, saved, off, view>>

\* The process ends: a crash, a signal, or an error in EnsureSettings.
Exit ==
  /\ process # "down"
  /\ process' = "down" /\ todo' = {} /\ view' = NoView
  /\ UNCHANGED <<cfg, stored, saved, off>>

ValidIdle(text) == text \in Int /\ text \in MinIdle .. MaxIdle

\* updateSettings checks the timeout, of all keys; 'm' holds None for a key the
\* request does not name.
ValidUpdate(m) == m["idle"] # None => ValidIdle(m["idle"])

\* All keys in one transaction.
UpdateSettings(m) ==
  /\ process = "up" /\ ValidUpdate(m)
  /\ stored' = [k \in Key |-> IF m[k] # None THEN m[k] ELSE stored[k]]
  /\ saved' = [k \in Key |-> IF m[k] # None THEN m[k] ELSE saved[k]]
  /\ off' = (off \/ m["masking"] = "false")
  /\ UNCHANGED <<process, cfg, todo, view>>

-----------------------------------------------------------------------------
\* ParseBoundedInt(raw, fallback, 1, MaxTail).
ParseBoundedInt(raw, fallback) ==
  IF raw \in Int /\ raw \in 1 .. MaxTail THEN raw ELSE fallback

\* 'readable': the query of Settings succeeds.
TerminalIdle(readable) ==
  IF readable /\ ValidIdle(stored["idle"]) THEN stored["idle"] ELSE cfg.idle

DefaultLogTail(readable) ==
  IF readable THEN ParseBoundedInt(stored["tail"], cfg.tail) ELSE cfg.tail

\* Mutant of GatewayTail: the Gateway trusts the Server.
GatewayTailTrusting(n) == n

\* The Gateway's own bound.
GatewayTail(n) == ParseBoundedInt(n, DefaultTail)

\* What Docker is asked for when the request asks for 'raw'.
LogTail(raw, readable) == GatewayTail(ParseBoundedInt(raw, DefaultLogTail(readable)))

\* The error is ignored: the map is empty then.
Masking(readable) == ~(readable /\ stored["masking"] = "false") /\ cfg.masking

-----------------------------------------------------------------------------
\* Mutant of Hidden: masking switched off shows secrets to everyone.
HiddenIfMasking(can, reveal, masking) == ~reveal /\ masking

\* Whether maskInspect runs.
Hidden(can, reveal, masking) == ~reveal /\ (masking \/ ~can)

\* container, after authorizeResource: 'can' is the session's secret.view.
Inspect(can, reveal, readable) ==
  /\ process = "up" /\ view.pc \in {"none", "shown"}
  /\ reveal => can
  /\ view' = [pc |-> "event", can |-> can, reveal |-> reveal,
              secret |-> ~Hidden(can, reveal, Masking(readable)), event |-> "none"]
  /\ UNCHANGED settingVars

\* audit only logs an insert that fails; the handler goes on.
InspectAudit ==
  /\ view.pc = "event"
  /\ \E written \in {"none", IF view.reveal THEN "SECRET_REVEAL" ELSE "CONTAINER_INSPECT"} :
       view' = [view EXCEPT !.pc = "answer", !.event = written]
  /\ UNCHANGED settingVars

InspectRespond ==
  /\ view.pc = "answer"
  /\ view' = [view EXCEPT !.pc = "shown"]
  /\ UNCHANGED settingVars

SettingsNext ==
  \/ \E idle \in TextOf["idle"], tail \in TextOf["tail"], masking \in TextOf["masking"] :
       Start(idle, tail, masking)
  \/ \E k \in Key : EnsureSetting(k)
  \/ Serve
  \/ Exit
  \/ \E idle \in Row("idle"), tail \in Row("tail"), masking \in Row("masking") :
       UpdateSettings([k \in Key |-> CASE k = "idle" -> idle [] k = "tail" -> tail
                                       [] k = "masking" -> masking])
  \/ \E can, reveal, readable \in BOOLEAN : Inspect(can, reveal, readable)
  \/ InspectAudit
  \/ InspectRespond

SettingsSpec == SettingsInit /\ [][SettingsNext]_settingsVars

-----------------------------------------------------------------------------
(***************************************************************************)
(* docs/configuration.md: "Later changes made in Administration ->         *)
(* Settings are persistent and take precedence over their initial          *)
(* environment values", and masking in the environment is an upper bound.  *)
(* A value that was saved and is usable governs from then on, after any    *)
(* number of restarts with any environment, a start that died half-way     *)
(* through EnsureSettings included.                                        *)
(***************************************************************************)
SavedTakesPrecedence ==
  process = "up" =>
    /\ saved["idle"] # None => TerminalIdle(TRUE) = saved["idle"]
    /\ saved["tail"] \in Count /\ saved["tail"] \in 1 .. MaxTail
         => DefaultLogTail(TRUE) = saved["tail"]
    /\ saved["masking"] # None
         => (Masking(TRUE) <=> cfg.masking /\ saved["masking"] # "false")

(***************************************************************************)
(* docs/security.md names the log tail among the limits.  Neither the      *)
(* saved default nor that of the environment is checked when it is set;    *)
(* whatever they are, Docker is asked for 1 to MaxTail lines, and for      *)
(* exactly those the request names when it names a number in that range.   *)
(***************************************************************************)
LogTailBounded ==
  process = "up" => \A raw \in TextOf["tail"], readable \in BOOLEAN :
    /\ LogTail(raw, readable) \in 1 .. MaxTail
    /\ raw \in Count /\ raw \in 1 .. MaxTail => LogTail(raw, readable) = raw

(***************************************************************************)
(* docs/security.md: "disabling global masking no longer exposes values to *)
(* users without secret.view".  Whatever was saved before or while the     *)
(* request ran, through restarts with other environments, and when the     *)
(* settings cannot be read, unmasked values went to a user with that       *)
(* permission, and unless somebody has ever switched masking off only to   *)
(* one who asked for a reveal.                                             *)
(***************************************************************************)
SecretsGuarded ==
  view.pc = "shown" /\ view.secret => view.can /\ (view.reveal \/ off)
=============================================================================
