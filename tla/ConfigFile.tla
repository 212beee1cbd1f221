----------------------------- MODULE ConfigFile -----------------------------
(***************************************************************************)
(* virage.config.json and its backups, as the commands of the CLI handle   *)
(* them (packages/virage-cli/src/cli): the `virage init` wizard and its    *)
(* rotation of the backups (init.ts), `virage migrate` (migrate.ts), the   *)
(* rewrite of pluginVersions by `virage update` (update.ts), that of the   *)
(* telemetry section by `virage telemetry on, off, init` (telemetry.ts)    *)
(* and the removal by `virage uninstall` (uninstall.ts).  One command runs *)
(* at a time; each can be killed between any two file operations.          *)
(* writeFile truncates the file before it fills it, so a kill can leave it *)
(* torn.                                                                   *)
(*                                                                         *)
(* A configuration is the provider chosen, its schema version and whether  *)
(* pluginVersions was rewritten; two runs with the same answers write the  *)
(* same bytes.                                                             *)
(***************************************************************************)
EXTENDS Naturals

CONSTANTS
    Picks,    \* the providers one can choose in the wizard (strings)
    Slots       \* the number of rotated backups: 5 in init.ts

ASSUME ConfigAssumption == Slots \in Nat \ {0} /\ "stub" \notin Picks

VARIABLES
    config,     \* virage.config.json
    bak,        \* virage.config.json.bak.1 ... .bak.Slots
    v1bak,      \* virage.config.json.v1.bak
    cmd,        \* the command that runs: where it is, and what it will write
    wizard,     \* the answers given so far: `state` and `step` of runInit
    good,       \* history: the last configuration that was completely written
    tore,       \* history: a write in place was cut, or replaced an unreadable file
    kills       \* history: the commands killed since then (up to Slots)

configVars == <<config, bak, v1bak, cmd, wizard, good, tore, kills>>

Blank(c) == [choice |-> c, schema |-> 0, pinned |-> FALSE]
Absent   == Blank("absent")
Torn     == Blank("torn")
\* What `virage telemetry` makes of a file it cannot read: no provider at all.
Stub     == [choice |-> "stub", schema |-> 1, pinned |-> FALSE]
Configs  == [choice : Picks \cup {"stub"}, schema : {1, 2}, pinned : BOOLEAN]
Contents == Configs \cup {Absent, Torn}

\* What a user writes.
Handwritten == {f \in Configs : ~f.pinned /\ f.choice \in Picks}

\* JSON.parse(readFile(config)) succeeds.
Readable == config \notin {Absent, Torn}

Idle == [at |-> "idle", i |-> 0, next |-> Absent]
NoAnswers == [step |-> 0, answered |-> {}, choice |-> "unset",
              hybrid |-> "unset", alpha |-> FALSE]

ConfigInit ==
    /\ config \in {Absent} \cup Handwritten
    /\ good = config
    /\ bak = [n \in 1..Slots |-> Absent]
    /\ v1bak = Absent
    /\ cmd = Idle
    /\ wizard = NoAnswers
    /\ tore = FALSE
    /\ kills = 0

History == <<good, tore, kills>>
Files == <<config, bak, v1bak, History>>
At(a) == cmd.at = a
Goto(a) == cmd' = [cmd EXCEPT !.at = a]

-----------------------------------------------------------------------------
(* The wizard: steps 0 to 8; every step but the first can go back.         *)

StartInit ==
    /\ At("idle")
    /\ Goto("wizard")
    /\ UNCHANGED <<Files, wizard>>

Answering(step) ==
    /\ At("wizard")
    /\ wizard.step = step
    /\ UNCHANGED <<Files, cmd>>

\* Step 0 asks for the output path, and for leave to overwrite: "Exit" ends
\* the command, "Back" at the second question asks the first one again.
AskPath ==
    /\ Answering(0)
    /\ wizard' = [wizard EXCEPT !.step = 1, !.answered = @ \cup {0}]

ExitWizard ==
    /\ At("wizard")
    /\ wizard.step = 0
    /\ cmd' = Idle
    /\ wizard' = NoAnswers
    /\ UNCHANGED Files

\* Steps 1 to 5: file types, agents, embedder, vector store, reranker.  The
\* choice of provider is made at step 3, and can be made again after a Back.
AskSelections ==
    \E step \in 1..5, c \in Picks :
        /\ Answering(step)
        /\ wizard' = [wizard EXCEPT !.step = step + 1,
                                    !.answered = @ \cup {step},
                                    !.choice = IF step = 3 THEN c ELSE @]

\* Step 6: hybrid search.  "Yes" asks for the blend weight; Back there resets
\* both answers and asks the first question again.
AskHybrid ==
    /\ Answering(6)
    /\ \/ /\ wizard.hybrid # "asking"
          /\ wizard' = [wizard EXCEPT !.hybrid = "no", !.step = 7,
                                      !.answered = @ \cup {6}]
       \/ /\ wizard.hybrid # "asking"
          /\ wizard' = [wizard EXCEPT !.hybrid = "asking"]
       \/ /\ wizard.hybrid = "asking"
          /\ wizard' = [wizard EXCEPT !.hybrid = "yes", !.alpha = TRUE,
                                      !.step = 7, !.answered = @ \cup {6}]
       \/ /\ wizard.hybrid = "asking"
          /\ wizard' = [wizard EXCEPT !.hybrid = "unset", !.alpha = FALSE]

AskScope ==
    /\ Answering(7)
    /\ wizard' = [wizard EXCEPT !.step = 8, !.answered = @ \cup {7}]

\* Back, offered by the steps 1 to 8 (by the first question of step 6).
GoBack ==
    \E step \in 1..8 :
        /\ Answering(step)
        /\ wizard.hybrid # "asking"
        /\ wizard' = [wizard EXCEPT !.step = step - 1]

\* generateJsonConfig: schema version 2, and no pluginVersions.
GenerateJsonConfig == [choice |-> wizard.choice, schema |-> 2, pinned |-> FALSE]

\* Step 8 confirms.  The plugins are then installed and the agents configured
\* (a failure of either is reported and nothing more).
Confirm ==
    /\ At("wizard")
    /\ wizard.step = 8
    /\ wizard' = [wizard EXCEPT !.step = 9]
    /\ Goto("rotate")
    /\ UNCHANGED Files

-----------------------------------------------------------------------------
(* rotateConfigBackups, one rename at a time.                              *)

\* Nothing to do without a configuration, or when the newest backup already
\* holds it.
RotateStart ==
    /\ At("rotate")
    /\ \/ /\ config = Absent \/ (bak[1] # Absent /\ config = bak[1])
          /\ cmd' = [cmd EXCEPT !.at = "truncate", !.next = GenerateJsonConfig]
          /\ UNCHANGED <<Files, wizard>>
       \/ /\ config # Absent
          /\ bak[1] = Absent \/ config # bak[1]
          /\ bak' = [bak EXCEPT ![Slots] = Absent]
          /\ cmd' = [cmd EXCEPT !.at = "shift", !.i = Slots - 1]
          /\ UNCHANGED <<config, v1bak, wizard, History>>

\* Faulty variant: the backups are not shifted.
RotateWithoutShift ==
    /\ At("shift")
    /\ cmd.i > 0
    /\ cmd' = [cmd EXCEPT !.i = 0]
    /\ UNCHANGED <<config, bak, v1bak, wizard, History>>

RotateShift ==
    /\ At("shift")
    /\ cmd.i > 0
    /\ bak' = IF bak[cmd.i] = Absent
              THEN bak      \* the rename fails, and the failure is ignored
              ELSE [bak EXCEPT ![cmd.i + 1] = bak[cmd.i], ![cmd.i] = Absent]
    /\ cmd' = [cmd EXCEPT !.i = @ - 1]
    /\ UNCHANGED <<config, v1bak, wizard, History>>

RotateEnd ==
    /\ At("shift")
    /\ cmd.i = 0
    /\ bak' = [bak EXCEPT ![1] = config]
    /\ config' = Absent
    /\ cmd' = [cmd EXCEPT !.at = "truncate", !.next = GenerateJsonConfig]
    /\ UNCHANGED <<v1bak, wizard, History>>

-----------------------------------------------------------------------------
(* The other commands.                                                     *)

\* runMigrate on a readable configuration of schema 1: the original is renamed
\* to .v1.bak, unless --output names another file (or --dry-run none).
Migrate ==
    /\ At("idle")
    /\ Readable
    /\ config.schema = 1
    /\ v1bak' = config
    /\ config' = Absent
    /\ cmd' = [Idle EXCEPT !.at = "truncate", !.next = [config EXCEPT !.schema = 2]]
    /\ UNCHANGED <<bak, wizard, History>>

\* runUpdate, once the packages are installed: pluginVersions is written into
\* the configuration, in place.
UpdatePins ==
    /\ At("idle")
    /\ Readable
    /\ cmd' = [Idle EXCEPT !.at = "truncateInPlace",
                           !.next = [config EXCEPT !.pinned = TRUE]]
    /\ UNCHANGED <<Files, wizard>>

\* runTelemetryOn, runTelemetryOff and runTelemetryInit: readConfig answers an
\* empty object for a file that is missing or torn, and writeConfig writes it.
RewriteTelemetry ==
    /\ At("idle")
    /\ cmd' = [Idle EXCEPT !.at = "truncateInPlace",
                           !.next = IF Readable THEN config ELSE Stub]
    /\ tore' = (tore \/ ~Readable)
    /\ UNCHANGED <<config, bak, v1bak, wizard, good, kills>>

\* From here on, f is the configuration the user has.
Accept(f) ==
    /\ good' = f
    /\ tore' = FALSE
    /\ kills' = 0

\* writeFile: the file is truncated when it is opened, then it is filled.
Truncate ==
    /\ cmd.at \in {"truncate", "truncateInPlace"}
    /\ config' = Torn
    /\ Goto(IF At("truncate") THEN "write" ELSE "writeInPlace")
    /\ UNCHANGED <<bak, v1bak, wizard, History>>

WriteConfig ==
    /\ cmd.at \in {"write", "writeInPlace"}
    /\ config' = cmd.next
    /\ IF cmd.next.choice = "stub" THEN UNCHANGED History ELSE Accept(cmd.next)
    /\ cmd' = Idle
    /\ wizard' = NoAnswers
    /\ UNCHANGED <<bak, v1bak>>

\* The process dies.  (A wizard's answers die with it.)
KillCommand ==
    /\ ~At("idle")
    /\ cmd' = Idle
    /\ wizard' = NoAnswers
    /\ tore' = (tore \/ At("writeInPlace"))
    /\ kills' = IF kills < Slots THEN kills + 1 ELSE kills
    /\ UNCHANGED <<config, bak, v1bak, good>>

\* runUninstall removes the configuration, and no backup, when told to.
UninstallConfig ==
    /\ At("idle")
    /\ config # Absent
    /\ config' = Absent
    /\ Accept(Absent)
    /\ UNCHANGED <<bak, v1bak, cmd, wizard>>

\* The user writes a configuration by hand, or restores one.
EditConfig ==
    /\ At("idle")
    /\ \E f \in Handwritten :
        /\ config' = f
        /\ Accept(f)
    /\ UNCHANGED <<bak, v1bak, cmd, wizard>>

ConfigNext ==
    \/ StartInit \/ AskPath \/ ExitWizard \/ AskSelections \/ AskHybrid
    \/ AskScope \/ GoBack \/ Confirm
    \/ RotateStart \/ RotateShift \/ RotateEnd
    \/ Migrate \/ UpdatePins \/ RewriteTelemetry \/ Truncate \/ WriteConfig
    \/ KillCommand \/ UninstallConfig \/ EditConfig

ConfigSpec == ConfigInit /\ [][ConfigNext]_configVars

-----------------------------------------------------------------------------
(* Properties.                                                             *)

ConfigTypeOK ==
    /\ config \in Contents /\ v1bak \in Contents /\ good \in Contents
    /\ bak \in [1..Slots -> Contents]
    /\ cmd.i \in 0..Slots /\ cmd.next \in Contents
    /\ wizard.step \in 0..9 /\ wizard.answered \subseteq 0..7
    /\ tore \in BOOLEAN
    /\ kills \in 0..Slots

\* Kill init, migrate and update one after the other, fewer times than there
\* are backups: the last configuration that was completely written is still in
\* some file, the configuration itself, a backup of init or that of migrate.
\* (A kill in the rotation leaves a gap, so the next one pushes the backups
\* further down.  The writes in place of update and telemetry have no backup;
\* telemetry's even replaces what migrate or init left unreadable.)
ConfigSurvives ==
    (good # Absent /\ ~tore /\ kills < Slots) =>
        \/ good \in {config, v1bak}
        \/ \E n \in 1..Slots : good = bak[n]
        \/ At("writeInPlace")

\* Whatever the path back and forth through the wizard, it ends with an answer
\* to every question, the blend weight included if hybrid search is on: runInit
\* casts the partial state to a complete one without a check.
WizardComplete ==
    wizard.step = 9 =>
        /\ wizard.answered = 0..7
        /\ wizard.choice \in Picks
        /\ wizard.hybrid \in {"yes", "no"}
        /\ wizard.hybrid = "yes" => wizard.alpha

\* init, migrate, update and telemetry never leave the project without the last
\* good configuration, and the wizard never writes one with a question open.
ConfigSound == ConfigTypeOK /\ ConfigSurvives /\ WizardComplete
=============================================================================
