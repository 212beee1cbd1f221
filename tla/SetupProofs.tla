---------------------------- MODULE SetupProofs ----------------------------
(***************************************************************************)
(* Proofs about what the CLI and the agent plugin keep in files and show:  *)
(* the configuration and its backups (ConfigFile), for any number of       *)
(* backups, providers and commands, killed anywhere; the copies of a       *)
(* package that `virage update` finds and replaces (PluginUpdate), for any *)
(* number of versions; the session file of the context hook                *)
(* (ContextInjection), for any number of prompts and chunks; the skills    *)
(* (AgentFiles), for any packages; the lists of the wizard (MenuPrompt),   *)
(* for any list and any keys.                                              *)
(***************************************************************************)
EXTENDS ConfigFile, PluginUpdate, AgentFiles, ContextInjection, MenuPrompt,
        FiniteSetTheorems, WellFoundedInduction, TLAPS

-----------------------------------------------------------------------------
(* The configuration.                                                      *)

Commands ==
  [at : {"idle", "wizard", "rotate", "shift", "truncate", "write",
         "truncateInPlace", "writeInPlace"},
   i : 0..Slots, next : Contents]

Answers ==
  [step : 0..9, answered : SUBSET (0..7), choice : Picks \cup {"unset"},
   hybrid : {"unset", "asking", "yes", "no"}, alpha : BOOLEAN]

ConfigTypes ==
  /\ config \in Contents /\ v1bak \in Contents /\ good \in Contents
  /\ bak \in [1..Slots -> Contents]
  /\ cmd \in Commands /\ wizard \in Answers
  /\ tore \in BOOLEAN /\ kills \in 0..Slots

\* The wizard has passed no question that it has no answer to, and what is
\* written is generated at its end.
Answered ==
  /\ \A k \in 0..7 : k < wizard.step => k \in wizard.answered
  /\ wizard.step > 3 => wizard.choice \in Picks
  /\ wizard.step > 6 => wizard.hybrid \in {"yes", "no"}
  /\ wizard.hybrid = "asking" => wizard.step = 6
  /\ wizard.hybrid = "yes" => wizard.alpha
  /\ cmd.at \in {"rotate", "shift"} => wizard.step = 9

\* A configuration that can be read is the last good one.
ReadableIsGood == Readable /\ ~tore => config = good

\* What telemetry makes of nothing is never the last good one.
GoodIsChosen == good.choice # "stub"

\* What a write will leave behind.
NextIsSound ==
  cmd.at \in {"truncate", "write", "truncateInPlace", "writeInPlace"} =>
    cmd.next \notin {Absent, Torn} /\ (cmd.next.choice = "stub" => tore)

\* The file that is about to be written is gone, cut, or in the first backup.
WriteIsBackedUp ==
  /\ At("truncate") => config = Absent \/ config = bak[1]
  /\ cmd.at \in {"write", "writeInPlace"} => config = Torn

\* The place that the rotation fills next is free.
GapFollows == At("shift") => cmd.i < Slots /\ bak[cmd.i + 1] = Absent

\* A kill costs the last good configuration one backup at most; the rotation
\* under way may have pushed it down by another one.
Pushed(n) == At("truncate") \/ At("write") \/ (At("shift") /\ n > cmd.i)

BackedUp == \E n \in 1..Slots : bak[n] = good /\ (n <= kills \/ (Pushed(n) /\ n <= kills + 1))

Survives ==
  good # Absent /\ ~tore /\ kills < Slots =>
    good \in {config, v1bak} \/ At("writeInPlace") \/ BackedUp

ConfigInv ==
  /\ ConfigTypes /\ Answered /\ ReadableIsGood /\ GoodIsChosen /\ NextIsSound
  /\ WriteIsBackedUp /\ GapFollows /\ Survives

-----------------------------------------------------------------------------
\* The markers are no configurations.
LEMMA Markers ==
  /\ Absent \in Contents /\ Torn \in Contents /\ Absent # Torn
  /\ Absent \notin Configs /\ Torn \notin Configs /\ Configs \subseteq Contents
  /\ Stub \in Configs /\ Stub.choice = "stub"
  /\ \A f \in Contents \ {Absent, Torn} : f \in Configs
  /\ \A f \in Configs : f.choice \in Picks \cup {"stub"} /\ f.schema \in {1, 2}
BY DEF Contents, Configs, Absent, Torn, Blank, Stub

\* The invariant implies what the run checks.
LEMMA ConfigInvSound == ConfigInv => ConfigSound
<1> SUFFICES ASSUME ConfigInv PROVE ConfigSound
  OBVIOUS
<1>1. ConfigTypeOK
  BY DEF ConfigInv, ConfigTypes, Commands, Answers, ConfigTypeOK
<1>2. ConfigSurvives
  BY DEF ConfigInv, Survives, BackedUp, ConfigSurvives
<1>3. WizardComplete
  BY DEF ConfigInv, Answered, ConfigTypes, Answers, WizardComplete
<1> QED
  BY <1>1, <1>2, <1>3 DEF ConfigSound

\* It holds before the first command.
LEMMA ConfigInitInv == ConfigInit => ConfigInv
<1> SUFFICES ASSUME ConfigInit PROVE ConfigInv
  OBVIOUS
<1> USE ConfigAssumption, Markers DEF ConfigInit
<1>1. Handwritten \subseteq Configs
  BY DEF Handwritten
<1>2. ConfigTypes
  <2>1. cmd \in Commands /\ wizard \in Answers
    BY DEF Commands, Answers, Idle, NoAnswers
  <2>2. config \in Contents /\ good \in Contents
    BY <1>1
  <2>3. bak \in [1..Slots -> Contents] /\ v1bak \in Contents
    OBVIOUS
  <2>4. tore \in BOOLEAN
    BY Zenon
  <2>5. kills \in 0..Slots
    OBVIOUS
  <2> QED
    BY <2>1, <2>2, <2>3, <2>4, <2>5 DEF ConfigTypes
<1>3. Answered /\ NextIsSound /\ WriteIsBackedUp /\ GapFollows
  BY DEF Answered, NextIsSound, WriteIsBackedUp, GapFollows, At, Idle, NoAnswers
<1>4. ReadableIsGood /\ Survives
  BY DEF ReadableIsGood, Survives
<1>5. GoodIsChosen
  BY DEF GoodIsChosen, Handwritten, Absent, Blank
<1> QED
  BY <1>2, <1>3, <1>4, <1>5 DEF ConfigInv

\* A step between two questions writes nothing.
LEMMA FilesUntouched ==
  ASSUME ConfigInv, UNCHANGED Files, cmd' \in Commands,
         cmd.at \in {"idle", "wizard", "rotate"}, cmd'.at \in {"idle", "wizard", "rotate"},
         wizard' \in Answers, Answered'
  PROVE  ConfigInv'
<1>1. UNCHANGED <<config, bak, v1bak, good, tore, kills>>
  BY DEF Files, History
<1>2. ConfigTypes' /\ ReadableIsGood' /\ GoodIsChosen'
  BY <1>1 DEF ConfigInv, ConfigTypes, ReadableIsGood, Readable, GoodIsChosen
<1>3. NextIsSound' /\ WriteIsBackedUp' /\ GapFollows'
  BY DEF NextIsSound, WriteIsBackedUp, GapFollows, At
<1>4. Survives'
  BY <1>1 DEF ConfigInv, Survives, BackedUp, Pushed, At
<1> QED
  BY <1>1, <1>2, <1>3, <1>4 DEF ConfigInv

\* The questions of the wizard: whatever the way back and forth, those before
\* the current one are answered.
LEMMA WizardSteps ==
  ASSUME ConfigInv,
         \/ StartInit \/ AskPath \/ ExitWizard \/ AskSelections \/ AskHybrid
         \/ AskScope \/ GoBack \/ Confirm
  PROVE  ConfigInv'
<1> USE DEF Answering, Goto, At
<1>1. /\ cmd \in Commands /\ wizard \in Answers /\ Answered
  BY DEF ConfigInv, ConfigTypes
<1>2. Idle \in Commands /\ NoAnswers \in Answers
  BY ConfigAssumption, Markers DEF Commands, Answers, Idle, NoAnswers
<1> DEFINE More(k) == wizard.answered \cup {k}
<1>12. \A k \in 0..7 : More(k) \in SUBSET (0..7)
  BY <1>1 DEF Answers
<1>3. CASE StartInit
  <2>1. cmd' \in Commands /\ cmd'.at = "wizard" /\ wizard' = wizard
    BY <1>1, <1>3 DEF StartInit, Commands
  <2>2. Answered'
    BY <1>1, <2>1 DEF Answered
  <2> QED
    BY <1>1, <1>3, <2>1, <2>2, FilesUntouched DEF StartInit
<1>4. CASE ExitWizard
  <2>1. Answered'
    BY <1>4 DEF ExitWizard, Answered, Idle, NoAnswers
  <2> QED
    BY <1>2, <1>4, <2>1, FilesUntouched DEF ExitWizard, Idle
<1>5. CASE Confirm
  <2>1. /\ cmd' \in Commands /\ cmd'.at = "rotate"
        /\ wizard' \in Answers /\ wizard'.step = 9 /\ wizard.step = 8
        /\ wizard'.answered = wizard.answered /\ wizard'.choice = wizard.choice
        /\ wizard'.hybrid = wizard.hybrid /\ wizard'.alpha = wizard.alpha
    BY <1>1, <1>5 DEF Confirm, Commands, Answers
  <2>2. Answered'
    BY <1>1, <2>1 DEF Answered
  <2> QED
    BY <1>5, <2>1, <2>2, FilesUntouched DEF Confirm
<1>6. ASSUME UNCHANGED <<Files, cmd>>, cmd.at = "wizard", wizard' \in Answers,
             Answered'
      PROVE  ConfigInv'
  BY <1>1, <1>6, FilesUntouched
<1>7. CASE AskPath
  <2>1. /\ wizard' \in Answers /\ wizard'.step = 1 /\ wizard.step = 0
        /\ wizard'.answered = More(0)
        /\ wizard'.hybrid = wizard.hybrid /\ wizard'.alpha = wizard.alpha
    <3>1. wizard' = [wizard EXCEPT !.step = 1, !.answered = More(0)] /\ wizard.step = 0
      BY <1>7 DEF AskPath
    <3> HIDE DEF More
    <3>2. More(0) \in SUBSET (0..7) /\ 1 \in 0..9
      BY <1>12
    <3> QED
      BY <1>1, <3>1, <3>2 DEF Answers
  <2>2. Answered'
    BY <1>1, <1>7, <2>1 DEF AskPath, Answered
  <2> QED
    BY <1>6, <1>7, <2>1, <2>2 DEF AskPath
<1>8. CASE AskSelections
  <2>1. PICK step \in 1..5, c \in Picks :
          /\ Answering(step)
          /\ wizard' = [wizard EXCEPT !.step = step + 1,
                                      !.answered = @ \cup {step},
                                      !.choice = IF step = 3 THEN c ELSE @]
    BY <1>8 DEF AskSelections
  <2>2. /\ wizard' \in Answers /\ wizard'.step = step + 1 /\ wizard.step = step
        /\ wizard'.answered = More(step)
        /\ wizard'.choice = IF step = 3 THEN c ELSE wizard.choice
        /\ wizard'.hybrid = wizard.hybrid /\ wizard'.alpha = wizard.alpha
    <3>1. /\ wizard' = [wizard EXCEPT !.step = step + 1, !.answered = More(step),
                                      !.choice = IF step = 3 THEN c ELSE @]
          /\ wizard.step = step
      BY <2>1
    <3>2. step + 1 \in 0..9 /\ More(step) \in SUBSET (0..7)
      BY <1>12
    <3> HIDE DEF More
    <3> QED
      BY <1>1, <3>1, <3>2 DEF Answers
  <2>3. Answered'
    BY <1>1, <2>1, <2>2 DEF Answered
  <2> QED
    BY <1>6, <2>1, <2>2, <2>3
<1>9. CASE AskHybrid
  <2>1. /\ wizard' \in Answers /\ wizard.step = 6
        /\ \/ /\ wizard'.step = 7 /\ wizard'.answered = More(6)
              /\ wizard'.hybrid \in {"yes", "no"}
              /\ wizard'.hybrid = "yes" => wizard'.alpha
           \/ /\ wizard'.step = 6 /\ wizard'.answered = wizard.answered
              /\ wizard'.hybrid \in {"unset", "asking"}
        /\ wizard'.choice = wizard.choice
    <3>1. /\ wizard.step = 6
          /\ \/ wizard' = [wizard EXCEPT !.hybrid = "no", !.step = 7, !.answered = More(6)]
             \/ wizard' = [wizard EXCEPT !.hybrid = "asking"]
             \/ wizard' = [wizard EXCEPT !.hybrid = "yes", !.alpha = TRUE, !.step = 7,
                                         !.answered = More(6)]
             \/ wizard' = [wizard EXCEPT !.hybrid = "unset", !.alpha = FALSE]
      BY <1>9 DEF AskHybrid
    <3>2. More(6) \in SUBSET (0..7) /\ 7 \in 0..9
      BY <1>12
    <3> HIDE DEF More
    <3> QED
      BY <1>1, <3>1, <3>2 DEF Answers
  <2>2. Answered'
    BY <1>1, <1>9, <2>1 DEF AskHybrid, Answered
  <2> QED
    BY <1>6, <1>9, <2>1, <2>2 DEF AskHybrid
<1>10. CASE AskScope
  <2>1. /\ wizard' \in Answers /\ wizard'.step = 8 /\ wizard.step = 7
        /\ wizard'.answered = More(7) /\ wizard'.choice = wizard.choice
        /\ wizard'.hybrid = wizard.hybrid /\ wizard'.alpha = wizard.alpha
    <3>1. wizard' = [wizard EXCEPT !.step = 8, !.answered = More(7)] /\ wizard.step = 7
      BY <1>10 DEF AskScope
    <3>2. More(7) \in SUBSET (0..7) /\ 8 \in 0..9
      BY <1>12
    <3> HIDE DEF More
    <3> QED
      BY <1>1, <3>1, <3>2 DEF Answers
  <2>2. Answered'
    BY <1>1, <1>10, <2>1 DEF AskScope, Answered
  <2> QED
    BY <1>6, <1>10, <2>1, <2>2 DEF AskScope
<1>11. CASE GoBack
  <2>1. PICK step \in 1..8 : /\ Answering(step) /\ wizard.hybrid # "asking"
                             /\ wizard' = [wizard EXCEPT !.step = step - 1]
    BY <1>11 DEF GoBack
  <2>2. /\ wizard' \in Answers /\ wizard'.step = step - 1 /\ wizard.step = step
        /\ wizard'.answered = wizard.answered /\ wizard'.choice = wizard.choice
        /\ wizard'.hybrid = wizard.hybrid /\ wizard'.alpha = wizard.alpha
    BY <1>1, <2>1 DEF Answers
  <2>3. Answered'
    BY <1>1, <2>1, <2>2 DEF Answered
  <2> QED
    BY <1>6, <2>1, <2>2, <2>3
<1> QED
  BY <1>3, <1>4, <1>5, <1>7, <1>8, <1>9, <1>10, <1>11

\* What the wizard generates is a configuration.
LEMMA Generated ==
  ASSUME ConfigInv, cmd.at \in {"rotate", "shift"}
  PROVE  GenerateJsonConfig \in Configs /\ GenerateJsonConfig.choice # "stub"
<1>1. wizard.choice \in Picks
  BY DEF ConfigInv, ConfigTypes, Answers, Answered
<1> QED
  BY <1>1, ConfigAssumption DEF GenerateJsonConfig, Configs

\* What is written is generated at the end of the wizard, or is a configuration
\* that was read; the answers play no part in it.
LEMMA AnsweredKept ==
  ASSUME ConfigInv, UNCHANGED wizard, cmd'.at \in {"rotate", "shift"} => cmd.at \in {"rotate", "shift"}
  PROVE  Answered'
BY DEF ConfigInv, Answered

\* The rotation begins with the oldest backup, which cannot be the only one that
\* holds the last good configuration.
LEMMA RotateStartKeeps ==
  ASSUME ConfigInv, RotateStart
  PROVE  ConfigInv'
<1> USE ConfigAssumption, Markers
<1>1. ConfigTypes
  BY DEF ConfigInv
<1>2. UNCHANGED <<config, v1bak, good, tore, kills, wizard>> /\ cmd.at = "rotate"
  BY DEF RotateStart, Files, History, At
<1>3. GenerateJsonConfig \in Configs /\ GenerateJsonConfig.choice # "stub"
  BY <1>2, Generated
<1>4. CASE /\ config = Absent \/ config = bak[1]
           /\ cmd' = [cmd EXCEPT !.at = "truncate", !.next = GenerateJsonConfig]
           /\ bak' = bak
  <2>1. cmd' \in Commands /\ cmd'.at = "truncate" /\ cmd'.next = GenerateJsonConfig
    BY <1>1, <1>3, <1>4 DEF ConfigTypes, Commands
  <2>2. Answered' /\ ConfigTypes'
    BY <1>1, <1>2, <1>4, <2>1, AnsweredKept DEF ConfigTypes
  <2>3. ReadableIsGood' /\ GoodIsChosen' /\ NextIsSound' /\ WriteIsBackedUp' /\ GapFollows'
    BY <1>2, <1>3, <1>4, <2>1 DEF ConfigInv, ReadableIsGood, Readable, GoodIsChosen, NextIsSound,
       WriteIsBackedUp, GapFollows, At
  <2>4. Survives'
    BY <1>2, <1>4, <2>1 DEF ConfigInv, Survives, BackedUp, Pushed, At
  <2> QED
    BY <2>2, <2>3, <2>4 DEF ConfigInv
<1>5. CASE /\ bak' = [bak EXCEPT ![Slots] = Absent]
           /\ cmd' = [cmd EXCEPT !.at = "shift", !.i = Slots - 1]
  <2>1. /\ cmd' \in Commands /\ cmd'.at = "shift" /\ cmd'.i = Slots - 1
        /\ bak' \in [1..Slots -> Contents] /\ bak'[Slots] = Absent
        /\ \A n \in 1..Slots : n < Slots => bak'[n] = bak[n]
    <3>1. Slots - 1 \in 0..Slots /\ Slots \in 1..Slots
      OBVIOUS
    <3>2. cmd' \in Commands /\ cmd'.at = "shift" /\ cmd'.i = Slots - 1
      BY <1>1, <1>5, <3>1 DEF ConfigTypes, Commands
    <3>3. bak \in [1..Slots -> Contents]
      BY <1>1 DEF ConfigTypes
    <3> QED
      BY <1>5, <3>1, <3>2, <3>3
  <2>2. Answered' /\ ConfigTypes'
    BY <1>1, <1>2, <2>1, AnsweredKept DEF ConfigTypes
  <2>3. ReadableIsGood' /\ GoodIsChosen' /\ NextIsSound' /\ WriteIsBackedUp' /\ GapFollows'
    BY <1>2, <2>1 DEF ConfigInv, ReadableIsGood, Readable, GoodIsChosen, NextIsSound,
       WriteIsBackedUp, GapFollows, At
  <2>4. Survives'
    <3> SUFFICES ASSUME good # Absent, ~tore, kills < Slots, good \notin {config, v1bak}
                 PROVE  BackedUp'
      BY <1>2 DEF Survives
    <3>1. PICK n \in 1..Slots : bak[n] = good /\ n <= kills
      BY <1>2 DEF ConfigInv, Survives, BackedUp, Pushed, At
    <3>2. bak'[n] = good
      BY <1>1, <2>1, <3>1 DEF ConfigTypes
    <3> QED
      BY <1>2, <3>1, <3>2 DEF BackedUp
  <2> QED
    BY <2>2, <2>3, <2>4 DEF ConfigInv
<1> QED
  BY <1>4, <1>5 DEF RotateStart, Files

\* A backup moves into a free place.
LEMMA RotateShiftKeeps ==
  ASSUME ConfigInv, RotateShift
  PROVE  ConfigInv'
<1> USE ConfigAssumption, Markers
<1>1. ConfigTypes
  BY DEF ConfigInv
<1>2. /\ UNCHANGED <<config, v1bak, good, tore, kills, wizard>>
      /\ cmd.at = "shift" /\ cmd.i > 0 /\ cmd' = [cmd EXCEPT !.i = @ - 1]
  BY DEF RotateShift, History, At
<1> DEFINE k == cmd.i
<1>3. k \in 1..Slots /\ k < Slots /\ k + 1 \in 1..Slots /\ bak[k + 1] = Absent
  BY <1>1, <1>2 DEF ConfigInv, GapFollows, ConfigTypes, Commands, At
<1>4. cmd' \in Commands /\ cmd'.at = "shift" /\ cmd'.i = k - 1
  <2>1. k - 1 \in 0..Slots
    BY <1>3
  <2> QED
    BY <1>1, <1>2, <2>1 DEF ConfigTypes, Commands
<1>5. /\ bak' \in [1..Slots -> Contents] /\ bak'[k] = Absent
      /\ \A n \in 1..Slots : n \notin {k, k + 1} => bak'[n] = bak[n]
      /\ bak[k] # Absent => bak'[k + 1] = bak[k]
  <2>1. bak \in [1..Slots -> Contents]
    BY <1>1 DEF ConfigTypes
  <2>2. bak' = IF bak[k] = Absent THEN bak
               ELSE [bak EXCEPT ![k + 1] = bak[k], ![k] = Absent]
    BY DEF RotateShift
  <2> HIDE DEF k
  <2> QED
    BY <1>3, <2>1, <2>2
<1> HIDE DEF k
<1>6. Answered' /\ ConfigTypes'
  BY <1>1, <1>2, <1>4, <1>5, AnsweredKept DEF ConfigTypes
<1>7. ReadableIsGood' /\ GoodIsChosen' /\ NextIsSound' /\ WriteIsBackedUp' /\ GapFollows'
  BY <1>2, <1>3, <1>4, <1>5 DEF ConfigInv, ReadableIsGood, Readable, GoodIsChosen, NextIsSound,
     WriteIsBackedUp, GapFollows, At
<1>8. Survives'
  <2> SUFFICES ASSUME good # Absent, ~tore, kills < Slots, good \notin {config, v1bak}
               PROVE  BackedUp'
    BY <1>2 DEF Survives
  <2>1. PICK n \in 1..Slots : bak[n] = good /\ (n <= kills \/ (n > k /\ n <= kills + 1))
    BY <1>2 DEF ConfigInv, Survives, BackedUp, Pushed, At, k
  <2>2. kills \in Nat /\ \A m \in 1..Slots : m > k - 1 => Pushed(m)'
    BY <1>1, <1>4 DEF Pushed, At, ConfigTypes
  <2>3. CASE n = k
    <3>1. n + 1 \in 1..Slots /\ bak'[n + 1] = good /\ n + 1 <= kills + 1
      BY <1>3, <1>5, <2>1, <2>2, <2>3
    <3>2. PICK m \in 1..Slots : bak'[m] = good /\ m <= kills + 1 /\ m > k - 1
      BY <1>3, <2>3, <3>1
    <3>3. Pushed(m)'
      BY <2>2, <3>2
    <3> QED
      BY <1>2, <3>2, <3>3 DEF BackedUp
  <2>4. CASE n # k
    <3>1. bak'[n] = good
      BY <1>3, <1>5, <2>1, <2>4
    <3>2. n > k => Pushed(n)'
      BY <1>3, <2>2
    <3> QED
      BY <1>2, <2>1, <3>1, <3>2 DEF BackedUp
  <2> QED
    BY <2>3, <2>4
<1> QED
  BY <1>6, <1>7, <1>8 DEF ConfigInv

\* The configuration becomes the first backup.
LEMMA RotateEndKeeps ==
  ASSUME ConfigInv, RotateEnd
  PROVE  ConfigInv'
<1> USE ConfigAssumption, Markers
<1>1. ConfigTypes
  BY DEF ConfigInv
<1>2. /\ UNCHANGED <<v1bak, good, tore, kills, wizard>> /\ config' = Absent
      /\ cmd.at = "shift" /\ cmd.i = 0 /\ bak' = [bak EXCEPT ![1] = config]
      /\ cmd' = [cmd EXCEPT !.at = "truncate", !.next = GenerateJsonConfig]
  BY DEF RotateEnd, History, At
<1>3. GenerateJsonConfig \in Configs /\ GenerateJsonConfig.choice # "stub"
  BY <1>2, Generated
<1>4. cmd' \in Commands /\ cmd'.at = "truncate" /\ cmd'.next = GenerateJsonConfig
  BY <1>1, <1>2, <1>3 DEF ConfigTypes, Commands
<1>5. /\ bak' \in [1..Slots -> Contents] /\ bak'[1] = config /\ bak[1] = Absent
      /\ \A n \in 1..Slots : n # 1 => bak'[n] = bak[n]
  BY <1>1, <1>2 DEF ConfigTypes, ConfigInv, GapFollows, At
<1>6. Answered' /\ ConfigTypes'
  BY <1>1, <1>2, <1>4, <1>5, AnsweredKept DEF ConfigTypes
<1>7. ReadableIsGood' /\ GoodIsChosen' /\ NextIsSound' /\ WriteIsBackedUp' /\ GapFollows'
  BY <1>2, <1>3, <1>4 DEF ConfigInv, ReadableIsGood, Readable, GoodIsChosen, NextIsSound,
     WriteIsBackedUp, GapFollows, At
<1>8. Survives'
  <2> SUFFICES ASSUME good # Absent, ~tore, kills < Slots, good # v1bak
               PROVE  BackedUp'
    BY <1>2 DEF Survives
  <2>1. \A n : Pushed(n)'
    BY <1>4 DEF Pushed, At
  <2>2. kills \in Nat
    BY <1>1 DEF ConfigTypes
  <2>3. CASE good = config
    BY <1>2, <1>5, <2>1, <2>2, <2>3 DEF BackedUp
  <2>4. CASE good # config
    <3>1. PICK n \in 1..Slots : bak[n] = good /\ n <= kills + 1
      BY <1>2, <2>2, <2>4 DEF ConfigInv, Survives, BackedUp, At
    <3>2. bak'[n] = good
      BY <1>5, <3>1
    <3> QED
      BY <1>2, <2>1, <3>1, <3>2 DEF BackedUp
  <2> QED
    BY <2>3, <2>4
<1> QED
  BY <1>6, <1>7, <1>8 DEF ConfigInv

\* The configuration is moved to the backup of migrate.
LEMMA MigrateKeeps ==
  ASSUME ConfigInv, Migrate
  PROVE  ConfigInv'
<1> USE ConfigAssumption, Markers
<1>1. ConfigTypes
  BY DEF ConfigInv
<1> DEFINE next == [config EXCEPT !.schema = 2]
<1>2. /\ UNCHANGED <<bak, good, tore, kills, wizard>> /\ config' = Absent
      /\ cmd.at = "idle" /\ Readable /\ v1bak' = config
      /\ cmd' = [Idle EXCEPT !.at = "truncate", !.next = next]
  BY DEF Migrate, History, At
<1>3. config \in Configs /\ next \in Configs /\ next.choice = config.choice
  BY <1>1, <1>2 DEF ConfigTypes, Readable, Configs
<1> HIDE DEF next
<1>4. cmd' \in Commands /\ cmd'.at = "truncate" /\ cmd'.next = next
  <2>1. Idle \in Commands
    BY DEF Idle, Commands
  <2> QED
    BY <1>2, <1>3, <2>1 DEF Commands
<1>5. Answered' /\ ConfigTypes'
  BY <1>1, <1>2, <1>3, <1>4, AnsweredKept DEF ConfigTypes
<1>6. tore \/ good = config
  BY <1>2 DEF ConfigInv, ReadableIsGood
<1>7. ReadableIsGood' /\ GoodIsChosen' /\ WriteIsBackedUp' /\ GapFollows'
  BY <1>2, <1>4 DEF ConfigInv, ReadableIsGood, Readable, GoodIsChosen, WriteIsBackedUp,
     GapFollows, At
<1>8. NextIsSound'
  BY <1>2, <1>3, <1>4, <1>6 DEF ConfigInv, GoodIsChosen, NextIsSound
<1>9. Survives'
  BY <1>2, <1>6 DEF Survives
<1> QED
  BY <1>5, <1>7, <1>8, <1>9 DEF ConfigInv

\* update and telemetry will write in place what they read; nothing is written
\* yet.
LEMMA InPlaceKeeps ==
  ASSUME ConfigInv, UpdatePins \/ RewriteTelemetry
  PROVE  ConfigInv'
<1> USE ConfigAssumption, Markers
<1>1. ConfigTypes
  BY DEF ConfigInv
<1>2. /\ UNCHANGED <<config, bak, v1bak, good, kills, wizard>> /\ cmd.at = "idle"
      /\ tore' \in BOOLEAN /\ (tore => tore')
  BY <1>1, Zenon DEF UpdatePins, RewriteTelemetry, Files, History, At, ConfigTypes
<1>3. Idle \in Commands /\ Configs \subseteq Contents
  BY DEF Idle, Commands, Contents
<1>4. /\ cmd' \in Commands /\ cmd'.at = "truncateInPlace" /\ cmd'.next \in Configs
      /\ cmd'.next.choice = "stub" => tore'
  <2>1. CASE UpdatePins
    <3> DEFINE next == [config EXCEPT !.pinned = TRUE]
    <3>1. config \in Configs
      BY <1>1, <2>1 DEF UpdatePins, Readable, ConfigTypes
    <3>2. next \in Configs /\ next.choice = config.choice
      BY <3>1 DEF Configs
    <3>3. tore \/ good = config
      BY <2>1 DEF UpdatePins, ConfigInv, ReadableIsGood
    <3>4. config.choice = "stub" => tore'
      BY <1>2, <3>3 DEF ConfigInv, GoodIsChosen
    <3>5. cmd' = [Idle EXCEPT !.at = "truncateInPlace", !.next = next]
      BY <2>1 DEF UpdatePins
    <3> HIDE DEF next
    <3>6. cmd' \in Commands /\ cmd'.at = "truncateInPlace" /\ cmd'.next = next
      BY <1>3, <3>2, <3>5 DEF Commands
    <3> QED
      BY <3>2, <3>4, <3>6
  <2>2. CASE RewriteTelemetry
    <3> DEFINE next == IF Readable THEN config ELSE Stub
    <3>1. next \in Configs
      BY <1>1 DEF Readable, ConfigTypes
    <3>2. next.choice = "stub" => tore'
      BY <1>2, <2>2 DEF RewriteTelemetry, ConfigInv, ReadableIsGood, GoodIsChosen
    <3>3. cmd' = [Idle EXCEPT !.at = "truncateInPlace", !.next = next]
      BY <2>2 DEF RewriteTelemetry
    <3> HIDE DEF next
    <3>4. cmd' \in Commands /\ cmd'.at = "truncateInPlace" /\ cmd'.next = next
      BY <1>3, <3>1, <3>3 DEF Commands
    <3> QED
      BY <3>1, <3>2, <3>4
  <2> QED
    BY <2>1, <2>2
<1>5. Answered' /\ ConfigTypes'
  BY <1>1, <1>2, <1>4, AnsweredKept DEF ConfigTypes
<1>6. ReadableIsGood' /\ GoodIsChosen' /\ WriteIsBackedUp' /\ GapFollows'
  BY <1>2, <1>4 DEF ConfigInv, ReadableIsGood, Readable, GoodIsChosen, WriteIsBackedUp,
     GapFollows, At
<1>7. NextIsSound'
  <2>1. cmd'.next \notin {Absent, Torn}
    BY <1>4
  <2> QED
    BY <1>4, <2>1 DEF NextIsSound
<1>8. Survives'
  BY <1>2, <1>4 DEF ConfigInv, Survives, BackedUp, Pushed, At
<1> QED
  BY <1>5, <1>6, <1>7, <1>8 DEF ConfigInv

\* The file that is cut is in the first backup already, or gone, or is the one
\* that is written in place.
LEMMA TruncateKeeps ==
  ASSUME ConfigInv, Truncate
  PROVE  ConfigInv'
<1> USE ConfigAssumption, Markers
<1>1. ConfigTypes
  BY DEF ConfigInv
<1>2. /\ UNCHANGED <<bak, v1bak, good, tore, kills, wizard>> /\ config' = Torn
      /\ cmd.at \in {"truncate", "truncateInPlace"}
      /\ cmd' = [cmd EXCEPT !.at = IF cmd.at = "truncate" THEN "write" ELSE "writeInPlace"]
  BY DEF Truncate, Goto, History, At
<1>3. /\ cmd' \in Commands /\ cmd'.next = cmd.next
      /\ cmd'.at = IF cmd.at = "truncate" THEN "write" ELSE "writeInPlace"
  BY <1>1, <1>2 DEF ConfigTypes, Commands
<1>4. Answered' /\ ConfigTypes'
  BY <1>1, <1>2, <1>3, AnsweredKept DEF ConfigTypes
<1>5. ReadableIsGood' /\ GoodIsChosen' /\ WriteIsBackedUp' /\ GapFollows'
  BY <1>2, <1>3 DEF ConfigInv, ReadableIsGood, Readable, GoodIsChosen, WriteIsBackedUp,
     GapFollows, At
<1>6. NextIsSound'
  BY <1>2, <1>3 DEF ConfigInv, NextIsSound
<1>7. Survives'
  <2>1. CASE cmd.at = "truncateInPlace"
    BY <1>3, <2>1 DEF Survives, At
  <2>2. CASE cmd.at = "truncate"
    <3> SUFFICES ASSUME good # Absent, ~tore, kills < Slots, good # v1bak
                 PROVE  BackedUp'
      BY <1>2 DEF Survives
    <3>1. \A n : Pushed(n)'
      BY <1>3, <2>2 DEF Pushed, At
    <3>2. kills \in Nat
      BY <1>1 DEF ConfigTypes
    <3>3. PICK n \in 1..Slots : bak[n] = good /\ n <= kills + 1
      <4>1. CASE good = config
        BY <2>2, <3>2, <4>1 DEF ConfigInv, WriteIsBackedUp, At
      <4>2. CASE good # config
        BY <2>2, <3>2, <4>2 DEF ConfigInv, Survives, BackedUp, At
      <4> QED
        BY <4>1, <4>2
    <3> QED
      BY <1>2, <3>1, <3>3 DEF BackedUp
  <2> QED
    BY <1>2, <2>1, <2>2
<1> QED
  BY <1>4, <1>5, <1>6, <1>7 DEF ConfigInv

\* What is completely written is the last good configuration from then on.
LEMMA WriteConfigKeeps ==
  ASSUME ConfigInv, WriteConfig
  PROVE  ConfigInv'
<1> USE ConfigAssumption, Markers
<1>1. ConfigTypes
  BY DEF ConfigInv
<1>2. /\ UNCHANGED <<bak, v1bak>> /\ config' = cmd.next /\ cmd' = Idle /\ wizard' = NoAnswers
      /\ cmd.at \in {"write", "writeInPlace"}
      /\ \/ cmd.next.choice = "stub" /\ UNCHANGED <<good, tore, kills>>
         \/ cmd.next.choice # "stub" /\ good' = cmd.next /\ tore' = FALSE /\ kills' = 0
  BY DEF WriteConfig, Accept, History
<1>3. cmd.next \in Configs /\ (cmd.next.choice = "stub" => tore)
  BY <1>1, <1>2 DEF ConfigInv, NextIsSound, ConfigTypes, Commands
<1>4. cmd' \in Commands /\ cmd'.at = "idle" /\ wizard' \in Answers
  BY <1>2 DEF Idle, Commands, NoAnswers, Answers
<1>5. Answered'
  BY <1>2, <1>4 DEF Answered, NoAnswers
<1>6. ConfigTypes'
  <2>1. good' \in Contents /\ kills' \in 0..Slots
    BY <1>1, <1>2, <1>3 DEF ConfigTypes
  <2>2. tore' \in BOOLEAN
    BY <1>1, <1>2, Zenon DEF ConfigTypes
  <2> QED
    BY <1>1, <1>2, <1>3, <1>4, <2>1, <2>2 DEF ConfigTypes
<1>7. ReadableIsGood' /\ GoodIsChosen' /\ Survives'
  BY <1>2, <1>3 DEF ConfigInv, ReadableIsGood, GoodIsChosen, Survives
<1>8. NextIsSound' /\ WriteIsBackedUp' /\ GapFollows'
  BY <1>4 DEF NextIsSound, WriteIsBackedUp, GapFollows, At
<1> QED
  BY <1>5, <1>6, <1>7, <1>8 DEF ConfigInv

\* A kill costs one backup, or it cut a file written in place.
LEMMA KillCommandKeeps ==
  ASSUME ConfigInv, KillCommand
  PROVE  ConfigInv'
<1> USE ConfigAssumption, Markers
<1>1. ConfigTypes
  BY DEF ConfigInv
<1>2. /\ UNCHANGED <<config, bak, v1bak, good>> /\ cmd' = Idle /\ wizard' = NoAnswers
      /\ tore' = (tore \/ cmd.at = "writeInPlace")
      /\ kills' = IF kills < Slots THEN kills + 1 ELSE kills
  BY DEF KillCommand, At
<1>3. cmd' \in Commands /\ cmd'.at = "idle" /\ wizard' \in Answers
  BY <1>2 DEF Idle, Commands, NoAnswers, Answers
<1>4. Answered'
  BY <1>2, <1>3 DEF Answered, NoAnswers
<1>5. ConfigTypes'
  <2>1. kills' \in 0..Slots
    BY <1>1, <1>2 DEF ConfigTypes
  <2>2. tore' \in BOOLEAN
    BY <1>1, <1>2, Zenon DEF ConfigTypes
  <2> QED
    BY <1>1, <1>2, <1>3, <2>1, <2>2 DEF ConfigTypes
<1>6. ReadableIsGood' /\ GoodIsChosen'
  BY <1>2 DEF ConfigInv, ReadableIsGood, Readable, GoodIsChosen
<1>7. NextIsSound' /\ WriteIsBackedUp' /\ GapFollows'
  BY <1>3 DEF NextIsSound, WriteIsBackedUp, GapFollows, At
<1>8. Survives'
  <2> SUFFICES ASSUME good # Absent, ~tore, cmd.at # "writeInPlace", kills + 1 < Slots,
                      kills < Slots, good \notin {config, v1bak}
               PROVE  BackedUp'
    BY <1>1, <1>2 DEF Survives, ConfigTypes
  <2>1. PICK n \in 1..Slots : bak[n] = good /\ n <= kills + 1
    <3>1. kills \in Nat
      BY <1>1 DEF ConfigTypes
    <3> QED
      BY <3>1 DEF ConfigInv, Survives, BackedUp, At
  <2> QED
    BY <1>2, <2>1 DEF BackedUp
<1> QED
  BY <1>4, <1>5, <1>6, <1>7, <1>8 DEF ConfigInv

\* The user removes the configuration, or writes one.
LEMMA UserKeeps ==
  ASSUME ConfigInv, UninstallConfig \/ EditConfig
  PROVE  ConfigInv'
<1> USE ConfigAssumption, Markers
<1>1. ConfigTypes
  BY DEF ConfigInv
<1>2. PICK f \in Handwritten \cup {Absent} :
        /\ UNCHANGED <<bak, v1bak, cmd, wizard>> /\ cmd.at = "idle"
        /\ config' = f /\ good' = f /\ tore' = FALSE /\ kills' = 0
  BY DEF UninstallConfig, EditConfig, Accept, At
<1>3. f \in Contents /\ f.choice # "stub"
  <2>1. CASE f = Absent
    BY <2>1 DEF Absent, Blank
  <2>2. CASE f \in Handwritten
    <3>1. f \in Configs /\ f.choice \in Picks
      BY <2>2 DEF Handwritten
    <3> QED
      BY <3>1
  <2> QED
    BY <2>1, <2>2
<1>4. ConfigTypes'
  <2>1. tore' \in BOOLEAN
    BY <1>2, Zenon
  <2> QED
    BY <1>1, <1>2, <1>3, <2>1 DEF ConfigTypes
<1>5. Answered'
  BY <1>2 DEF ConfigInv, Answered
<1>6. ReadableIsGood' /\ GoodIsChosen' /\ Survives'
  BY <1>2, <1>3 DEF ReadableIsGood, GoodIsChosen, Survives
<1>7. NextIsSound' /\ WriteIsBackedUp' /\ GapFollows'
  BY <1>2 DEF NextIsSound, WriteIsBackedUp, GapFollows, At
<1> QED
  BY <1>4, <1>5, <1>6, <1>7 DEF ConfigInv

\* The invariant is inductive.
LEMMA ConfigStepInv == ConfigInv /\ [ConfigNext]_configVars => ConfigInv'
<1> SUFFICES ASSUME ConfigInv, [ConfigNext]_configVars PROVE ConfigInv'
  OBVIOUS
<1>1. CASE UNCHANGED configVars
  BY <1>1 DEF configVars, ConfigInv, ConfigTypes, Answered, ReadableIsGood, Readable,
     GoodIsChosen, NextIsSound, WriteIsBackedUp, GapFollows, Survives, BackedUp, Pushed, At
<1> QED
  BY <1>1, WizardSteps, RotateStartKeeps, RotateShiftKeeps, RotateEndKeeps, MigrateKeeps,
     InPlaceKeeps, TruncateKeeps, WriteConfigKeeps, KillCommandKeeps, UserKeeps
     DEF ConfigNext

\* However init, migrate, update, telemetry and uninstall follow each other and
\* wherever they are killed, the last good configuration is in some file until
\* there are as many kills as backups, and the wizard writes none with a
\* question open.
THEOREM ConfigurationSurvives == ConfigSpec => []ConfigSound
<1>1. ConfigSpec => []ConfigInv
  BY ConfigInitInv, ConfigStepInv, PTL DEF ConfigSpec
<1> QED
  BY <1>1, ConfigInvSound, PTL

-----------------------------------------------------------------------------
(* The installed plugins.                                                  *)

Updates ==
  [at : {"idle", "install", "pin", "configure"}, seen : 0..Unknown,
   loc : Place, base : 0..MaxVersion]

\* There is no node_modules without a package.json, and nothing else installs
\* while an update runs.
UpdateInv ==
  /\ latest \in 1..MaxVersion /\ inst \in [Place -> 0..MaxVersion]
  /\ packageJson \in BOOLEAN /\ update \in Updates
  /\ packageJson \/ inst["node_modules"] = 0
  /\ update.at = "install" => update.loc = InstallLocation(inst) /\ update.base <= latest
  /\ UpdateReachesTheCopyInUse

\* The four places, and the order in which they are looked up.
LEMMA FourPlaces ==
  /\ Place = {"local-plugin", "global-plugin", "node_modules", "global-npm"}
  /\ Places[1] = "local-plugin" /\ Places[2] = "global-plugin" /\ Places[3] = "node_modules"
<1>1. Len(Places) = 4
  BY DEF Places
<1>2. /\ Places[1] = "local-plugin" /\ Places[2] = "global-plugin"
      /\ Places[3] = "node_modules" /\ Places[4] = "global-npm"
  BY DEF Places
<1>3. \A n : n \in 1..4 <=> n = 1 \/ n = 2 \/ n = 3 \/ n = 4
  OBVIOUS
<1> QED
  BY <1>1, <1>2, <1>3 DEF Place

\* A plugin directory hides the packages, the project's one hides the global one.
LEMMA LocationIs ==
  ASSUME NEW i \in [Place -> Nat]
  PROVE  InstallLocation(i) = IF i["local-plugin"] # 0 THEN "local-plugin"
                              ELSE IF i["global-plugin"] # 0 THEN "global-plugin"
                              ELSE IF i["node_modules"] # 0 THEN "node_modules"
                              ELSE "global-npm"
<1> DEFINE first(n) == i[Places[n]] # 0 /\ \A k \in 1..(n - 1) : i[Places[k]] = 0
<1>1. \A n : n \in 1..3 <=> n = 1 \/ n = 2 \/ n = 3
  OBVIOUS
<1>2. CASE i["local-plugin"] # 0
  <2>1. first(1)
    BY <1>2, FourPlaces
  <2>2. \A n \in 1..3 : first(n) => n = 1
    BY <1>1, <1>2, FourPlaces
  <2>3. (CHOOSE n \in 1..3 : first(n)) = 1
    BY <2>1, <2>2
  <2> QED
    BY <1>2, <2>3, FourPlaces DEF InstallLocation
<1>3. CASE i["local-plugin"] = 0 /\ i["global-plugin"] # 0
  <2>1. first(2)
    BY <1>3, FourPlaces
  <2>2. \A n \in 1..3 : first(n) => n = 2
    BY <1>1, <1>3, FourPlaces
  <2>3. (CHOOSE n \in 1..3 : first(n)) = 2
    BY <2>1, <2>2
  <2> QED
    BY <1>3, <2>3, FourPlaces DEF InstallLocation
<1>4. CASE i["local-plugin"] = 0 /\ i["global-plugin"] = 0 /\ i["node_modules"] # 0
  <2>1. first(3)
    BY <1>4, FourPlaces
  <2>2. \A n \in 1..3 : first(n) => n = 3
    BY <1>1, <1>4, FourPlaces
  <2>3. (CHOOSE n \in 1..3 : first(n)) = 3
    BY <2>1, <2>2
  <2> QED
    BY <1>4, <2>3, FourPlaces DEF InstallLocation
<1>5. CASE i["local-plugin"] = 0 /\ i["global-plugin"] = 0 /\ i["node_modules"] = 0
  <2>1. ~\E n \in 1..3 : i[Places[n]] # 0
    BY <1>1, <1>5, FourPlaces
  <2> QED
    BY <1>5, <2>1 DEF InstallLocation
<1> QED
  BY <1>2, <1>3, <1>4, <1>5

\* It holds before the first update.
LEMMA UpdateInitInv == PluginInit => UpdateInv
BY VersionAssumption, FourPlaces DEF PluginInit, UpdateInv, Updates, NoUpdate, Unknown,
   UpdateReachesTheCopyInUse

\* The place an update installs to is where the package is found afterwards.
LEMMA InstallReaches ==
  ASSUME UpdateInv, update.at = "install", inst' = [inst EXCEPT ![InstallTarget] = latest]
  PROVE  CurrentVersion(inst') = latest
<1>1. /\ inst \in [Place -> Nat] /\ latest \in Nat \ {0}
      /\ packageJson \/ inst["node_modules"] = 0
      /\ update.loc = InstallLocation(inst)
  BY VersionAssumption DEF UpdateInv
<1>2. InstallTarget \in Place
  BY FourPlaces DEF InstallTarget
<1>3. /\ inst' \in [Place -> Nat] /\ inst'[InstallTarget] = latest
      /\ \A p \in Place : p # InstallTarget => inst'[p] = inst[p]
  BY <1>1, <1>2
<1>4. InstallLocation(inst') = InstallTarget
  <2>1. InstallLocation(inst) = IF inst["local-plugin"] # 0 THEN "local-plugin"
                              ELSE IF inst["global-plugin"] # 0 THEN "global-plugin"
                              ELSE IF inst["node_modules"] # 0 THEN "node_modules"
                              ELSE "global-npm"
    BY <1>1, LocationIs
  <2>2. InstallLocation(inst') = IF inst'["local-plugin"] # 0 THEN "local-plugin"
                              ELSE IF inst'["global-plugin"] # 0 THEN "global-plugin"
                              ELSE IF inst'["node_modules"] # 0 THEN "node_modules"
                              ELSE "global-npm"
    BY <1>3, LocationIs
  <2> QED
    BY <1>1, <1>3, <2>1, <2>2, FourPlaces DEF InstallTarget
<1> QED
  BY <1>3, <1>4 DEF CurrentVersion

\* The invariant is inductive.
LEMMA UpdateStepInv == UpdateInv /\ [PluginNext]_pluginVars => UpdateInv'
<1> SUFFICES ASSUME UpdateInv, [PluginNext]_pluginVars PROVE UpdateInv'
  OBVIOUS
<1> USE VersionAssumption
<1>1. /\ latest \in 1..MaxVersion /\ inst \in [Place -> 0..MaxVersion]
      /\ update \in Updates /\ (packageJson \/ inst["node_modules"] = 0)
  BY DEF UpdateInv
<1>2. packageJson' = packageJson
  BY DEF PluginNext, Publish, UpdateStart, UpdateInstall, UpdatePin, UpdateConfigure,
     KillUpdate, InitInstall, UninstallPlugins, AddUserHook, pluginVars
<1>3. CASE Publish
  BY <1>1, <1>3 DEF Publish, UpdateInv, UpdateReachesTheCopyInUse, Updates
<1>4. CASE UpdateStart
  <2>1. PICK seen \in {latest, Unknown}, pick \in BOOLEAN :
          update' = [at |-> IF pick THEN "install" ELSE "configure", seen |-> seen,
                     loc |-> InstallLocation(inst), base |-> latest]
    BY <1>4 DEF UpdateStart
  <2>2. InstallLocation(inst) \in Place
    <3>1. inst \in [Place -> Nat]
      BY <1>1
    <3> QED
      BY <3>1, LocationIs, FourPlaces
  <2>3. /\ update' \in Updates /\ update'.at \in {"install", "configure"}
        /\ update'.loc = InstallLocation(inst) /\ update'.base = latest
    BY <1>1, <2>1, <2>2 DEF Updates, Unknown
  <2>4. UNCHANGED <<latest, inst>>
    BY <1>4 DEF UpdateStart
  <2>5. update'.loc = InstallLocation(inst') /\ update'.base <= latest'
    BY <1>1, <2>3, <2>4
  <2> QED
    BY <1>2, <2>3, <2>4, <2>5 DEF UpdateInv, UpdateReachesTheCopyInUse
<1>5. CASE UpdateInstall
  <2>1. UNCHANGED latest /\ update.at = "install"
    BY <1>5 DEF UpdateInstall
  <2>2. CASE /\ inst' = [inst EXCEPT ![InstallTarget] = latest]
             /\ update' = [update EXCEPT !.at = "pin"]
    <3>1. update' \in Updates /\ update'.at = "pin" /\ update'.base = update.base
      BY <1>1, <2>2 DEF Updates
    <3>2. CurrentVersion(inst') = latest /\ update.base <= latest
      BY <2>1, <2>2, InstallReaches DEF UpdateInv
    <3>3. UpdateReachesTheCopyInUse'
      <4>1. CurrentVersion(inst)' = CurrentVersion(inst')
        BY DEF CurrentVersion, InstallLocation
      <4> QED
        BY <1>1, <3>1, <3>2, <4>1 DEF UpdateReachesTheCopyInUse, Updates
    <3>4. inst' \in [Place -> 0..MaxVersion]
      <4>1. latest \in 0..MaxVersion
        BY <1>1
      <4> QED
        BY <1>1, <2>2, <4>1
    <3>5. packageJson \/ inst'["node_modules"] = 0
      BY <1>1, <2>1, <2>2, LocationIs, FourPlaces DEF UpdateInv, InstallTarget
    <3> QED
      BY <1>2, <2>1, <3>1, <3>3, <3>4, <3>5 DEF UpdateInv
  <2>3. CASE inst' = inst /\ update' = [update EXCEPT !.at = "configure"]
    <3>1. update' \in Updates /\ update'.at = "configure"
      BY <1>1, <2>3 DEF Updates
    <3> QED
      BY <1>2, <2>1, <2>3, <3>1 DEF UpdateInv, UpdateReachesTheCopyInUse
  <2> QED
    BY <1>5, <2>2, <2>3 DEF UpdateInstall
<1>6. ASSUME UNCHANGED <<latest, inst>>, update' \in Updates,
             update'.at \in {"idle", "configure"}
      PROVE  UpdateInv'
  BY <1>2, <1>6 DEF UpdateInv, UpdateReachesTheCopyInUse
<1>7. CASE UpdatePin
  BY <1>1, <1>6, <1>7 DEF UpdatePin, Updates
<1>8. CASE UpdateConfigure \/ KillUpdate
  <2>1. NoUpdate \in Updates /\ NoUpdate.at = "idle"
    BY FourPlaces DEF NoUpdate, Updates, Unknown
  <2> QED
    BY <1>6, <1>8, <2>1 DEF UpdateConfigure, KillUpdate
<1>9. CASE InitInstall \/ UninstallPlugins
  <2>1. UNCHANGED <<latest, update>> /\ update.at = "idle"
    BY <1>9 DEF InitInstall, UninstallPlugins
  <2>2. inst' \in [Place -> 0..MaxVersion] /\ inst'["node_modules"] = inst["node_modules"]
    BY <1>1, <1>9, FourPlaces DEF InitInstall, UninstallPlugins
  <2> QED
    BY <1>2, <2>1, <2>2 DEF UpdateInv, UpdateReachesTheCopyInUse
<1>10. CASE AddUserHook \/ UNCHANGED pluginVars
  <2>1. UNCHANGED <<latest, inst, update>>
    BY <1>10 DEF AddUserHook, pluginVars
  <2> QED
    BY <1>2, <2>1 DEF UpdateInv, UpdateReachesTheCopyInUse
<1> QED
  BY <1>3, <1>4, <1>5, <1>7, <1>8, <1>9, <1>10 DEF PluginNext

\* Wherever a package is installed, and in however many places at once, an update
\* that installs it replaces the copy that is found first, with a version that is
\* at least the one called latest when the update began.
THEOREM UpdatesReachTheCopyInUse == PluginSpec => []UpdateReachesTheCopyInUse
<1>1. PluginSpec => []UpdateInv
  BY UpdateInitInv, UpdateStepInv, PTL DEF PluginSpec
<1>2. UpdateInv => UpdateReachesTheCopyInUse
  BY DEF UpdateInv
<1> QED
  BY <1>1, <1>2, PTL

-----------------------------------------------------------------------------
(* The session file of the context hook.                                   *)

Ranks == 1..DEFAULT_TOP_K

Results == UNION {[D -> Chunks] : D \in SUBSET Ranks}

\* The processes that will print what they found.
Saving == {"write", "fill", "rename", "print"}

InjectTypes ==
  /\ hook \in [Hooks -> {"ready", "load", "done"} \cup Saving]
  /\ found \in [Hooks -> Results \cup {<<>>}]
  /\ \A h \in Running : found[h] \in Results
  /\ memory \in [Hooks -> SUBSET Chunks]
  /\ state \subseteq Chunks /\ tmp \in Hooks \cup {"none", "cut"}
  /\ forgotten \subseteq Chunks
  /\ shown \in [Chunks -> Nat]
  /\ killed \in BOOLEAN /\ overlap \in BOOLEAN

\* A chunk that was given, or is about to be.
Given(c) ==
  \/ shown[c] > 0
  \/ \E h \in Hooks : hook[h] \in Saving /\ c \in Range(found[h])

\* Nothing is remembered that is not given in the end.
Remembered ==
  ~killed => /\ \A c \in state : Given(c)
             /\ \A h \in Hooks : \A c \in memory[h] : Given(c)

\* One process at a time: the session file holds all that was given and not
\* forgotten, also while it is replaced, and the process adds chunks that are not in it.
OneByOne ==
  ~overlap =>
    /\ \A g, h \in Running : g = h
    /\ \A c \in Chunks \ forgotten : shown[c] <= 1 /\ (shown[c] > 0 => c \in state)
    /\ \A h \in Hooks : hook[h] \in Saving =>
         /\ \A c \in Range(found[h]) : c \in forgotten \/ shown[c] = 0
         /\ Range(found[h]) \subseteq memory[h]
         /\ hook[h] = "print" => Range(found[h]) \subseteq state \cup forgotten
         /\ hook[h] # "print" => state \subseteq memory[h] \cup forgotten
         /\ hook[h] = "fill" => tmp = "cut"
         /\ hook[h] = "rename" => tmp = h

InjectInv == InjectTypes /\ Remembered /\ OneByOne

\* A chunk costs at most a tenth of the budget.
LEMMA TokensBound ==
  ASSUME NEW c \in Chunks
  PROVE  Tokens(c) \in 0..200
<1> DEFINE S == {Text[c], CHUNK_CHAR_LIMIT}
<1>1. Text[c] \in Nat
  BY InjectAssumption
<1>2. \E x \in S : \A y \in S : x <= y
  <2>1. CASE Text[c] <= 800
    BY <1>1, <2>1 DEF CHUNK_CHAR_LIMIT
  <2>2. CASE ~(Text[c] <= 800)
    BY <1>1, <2>2 DEF CHUNK_CHAR_LIMIT
  <2> QED
    BY <2>1, <2>2
<1>3. Min(S) \in S /\ \A y \in S : Min(S) <= y
  BY <1>2 DEF Min
<1>4. Min(S) \in 0..800
  BY <1>1, <1>3 DEF CHUNK_CHAR_LIMIT
<1> QED
  BY <1>4 DEF Tokens

\* Top-k chunks of full size fit into the budget, so all that is found is given.
LEMMA AllFit ==
  ASSUME NEW rs \in Results
  PROVE  FormatContext(rs) = Range(rs)
<1> DEFINE t(n) == IF n \in DOMAIN rs THEN Tokens(rs[n]) ELSE 0
           spent[n \in 0..DEFAULT_TOP_K] == IF n = 0 THEN 0 ELSE spent[n - 1] + t(n)
           Kept == {m \in DOMAIN rs : spent[m] <= TOKEN_BUDGET \/ \A k \in DOMAIN rs : m <= k}
<1>1. FormatContext(rs) = {rs[n] : n \in Kept}
  BY DEF FormatContext
<1>2. DOMAIN rs \subseteq 1..5 /\ \A n \in DOMAIN rs : rs[n] \in Chunks
  BY DEF Results, Ranks, DEFAULT_TOP_K
<1>3. \A n : t(n) \in 0..200
  BY <1>2, TokensBound
<1> HIDE DEF t
<1>4. spent = [n \in 0..5 |-> IF n = 0 THEN 0 ELSE spent[n - 1] + t(n)]
  <2> DEFINE F(f) == [n \in 0..5 |-> IF n = 0 THEN 0 ELSE f[n - 1] + t(n)]
             g == [n \in 0..5 |-> IF n = 0 THEN 0
                                  ELSE IF n = 1 THEN t(1)
                                  ELSE IF n = 2 THEN t(1) + t(2)
                                  ELSE IF n = 3 THEN t(1) + t(2) + t(3)
                                  ELSE IF n = 4 THEN t(1) + t(2) + t(3) + t(4)
                                  ELSE t(1) + t(2) + t(3) + t(4) + t(5)]
  <2>1. g = F(g)
    <3> SUFFICES ASSUME NEW n \in 0..5 PROVE g[n] = F(g)[n]
      OBVIOUS
    <3>1. n = 0 \/ n = 1 \/ n = 2 \/ n = 3 \/ n = 4 \/ n = 5
      OBVIOUS
    <3> QED
      BY <1>3, <3>1
  <2>2. spent = CHOOSE f : f = F(f)
    BY DEF DEFAULT_TOP_K
  <2> HIDE DEF F, g, spent
  <2>3. spent = F(spent)
    BY <2>1, <2>2
  <2> QED
    BY <2>3 DEF F
<1> HIDE DEF spent
<1>5. \A n \in 1..5 : spent[n] \in Nat /\ spent[n] <= 1000
  <2>1. /\ spent[0] = 0 /\ spent[1] = spent[0] + t(1) /\ spent[2] = spent[1] + t(2)
        /\ spent[3] = spent[2] + t(3) /\ spent[4] = spent[3] + t(4)
        /\ spent[5] = spent[4] + t(5)
    BY <1>4
  <2>8. /\ t(1) \in 0..200 /\ t(2) \in 0..200 /\ t(3) \in 0..200
        /\ t(4) \in 0..200 /\ t(5) \in 0..200
    BY <1>3
  <2>9. t(1) \in Nat /\ t(2) \in Nat /\ t(3) \in Nat /\ t(4) \in Nat /\ t(5) \in Nat
    BY <2>8
  <2>2. spent[1] \in Nat /\ spent[1] <= 200
    BY <2>1, <2>8, <2>9
  <2>3. spent[2] \in Nat /\ spent[2] <= 400
    BY <2>1, <2>8, <2>9, <2>2
  <2>4. spent[3] \in Nat /\ spent[3] <= 600
    BY <2>1, <2>8, <2>9, <2>3
  <2>5. spent[4] \in Nat /\ spent[4] <= 800
    BY <2>1, <2>8, <2>9, <2>4
  <2>6. spent[5] \in Nat /\ spent[5] <= 1000
    BY <2>1, <2>8, <2>9, <2>5
  <2> SUFFICES ASSUME NEW n \in 1..5 PROVE spent[n] \in Nat /\ spent[n] <= 1000
    OBVIOUS
  <2>7. n = 1 \/ n = 2 \/ n = 3 \/ n = 4 \/ n = 5
    OBVIOUS
  <2> QED
    BY <2>2, <2>3, <2>4, <2>5, <2>6, <2>7
<1>6. Kept = DOMAIN rs
  <2>1. ASSUME NEW m \in DOMAIN rs PROVE spent[m] <= TOKEN_BUDGET
    <3>1. m \in 1..5
      BY <1>2
    <3>2. spent[m] \in Nat /\ spent[m] <= 1000
      BY <1>5, <3>1
    <3> QED
      BY <3>2 DEF TOKEN_BUDGET
  <2> QED
    BY <2>1
<1> QED
  BY <1>1, <1>6 DEF Range

\* The invariant implies what the run checks.
LEMMA InjectInvSound == InjectInv => ContextGiven
<1> SUFFICES ASSUME InjectInv PROVE ContextGiven
  OBVIOUS
<1>1. InjectTypeOK /\ ShownOnce
  BY DEF InjectInv, InjectTypes, InjectTypeOK, OneByOne, ShownOnce
<1>2. ASSUME ~killed, Running = {}, NEW c, Given(c) PROVE shown[c] > 0
  BY <1>2 DEF Given, Running, Saving
<1>3. RememberedWasShown /\ NothingWithheld
  BY <1>2 DEF InjectInv, Remembered, RememberedWasShown, NothingWithheld
<1> QED
  BY <1>1, <1>3 DEF ContextGiven

\* It holds before the first prompt.
LEMMA InjectInitInv == InjectInit => InjectInv
<1> SUFFICES ASSUME InjectInit PROVE InjectInv
  OBVIOUS
<1>1. Running = {} /\ \A h \in Hooks : hook[h] \notin Saving
  BY DEF InjectInit, Running, Saving
<1>2. InjectTypes
  BY <1>1 DEF InjectInit, InjectTypes
<1>3. Remembered /\ OneByOne
  BY <1>1 DEF InjectInit, Remembered, OneByOne
<1> QED
  BY <1>2, <1>3 DEF InjectInv

\* A process moves alone.
LEMMA Moves ==
  ASSUME InjectTypes, NEW h \in Hooks, NEW from, NEW to \in {"done"} \cup {"load"} \cup Saving,
         from # "done", Step(h, from, to)
  PROVE  /\ hook' \in [Hooks -> {"ready", "load", "done"} \cup Saving]
         /\ hook[h] = from /\ hook'[h] = to
         /\ \A g \in Hooks \ {h} : hook'[g] = hook[g]
         /\ Running' = IF to = "done" THEN Running \ {h} ELSE Running \cup {h}
<1>1. hook \in [Hooks -> {"ready", "load", "done"} \cup Saving]
  BY DEF InjectTypes
<1>2. hook[h] = from /\ hook' = [hook EXCEPT ![h] = to]
  BY DEF Step
<1>3. to # "ready"
  BY DEF Saving
<1> QED
  BY <1>1, <1>2, <1>3 DEF Running

\* A prompt that comes while another process runs overlaps with it.
LEMMA QueryKeeps ==
  ASSUME InjectInv, NEW h \in Hooks, Query(h)
  PROVE  InjectInv'
<1> USE DEF InjectInv
<1>1. /\ UNCHANGED <<memory, state, tmp, shown, forgotten, killed>>
      /\ overlap' = (overlap \/ Running # {})
  BY DEF Query
<1>2. PICK to \in {"load", "done"} :
        /\ Step(h, "ready", to)
        /\ found' \in [Hooks -> Results \cup {<<>>}]
        /\ \A g \in Hooks \ {h} : found'[g] = found[g]
        /\ to = "load" => found'[h] \in Results
  <2>1. found \in [Hooks -> Results \cup {<<>>}]
    BY DEF InjectTypes
  <2>2. CASE Step(h, "ready", "done") /\ UNCHANGED found
    BY <2>1, <2>2
  <2>3. ASSUME Step(h, "ready", "load"),
               NEW n \in 1..Min({DEFAULT_TOP_K, Cardinality(Chunks)}),
               NEW rs \in [1..n -> Chunks], found' = [found EXCEPT ![h] = rs]
        PROVE  /\ found' \in [Hooks -> Results \cup {<<>>}]
               /\ \A g \in Hooks \ {h} : found'[g] = found[g]
               /\ found'[h] \in Results
    <3> DEFINE S == {DEFAULT_TOP_K, Cardinality(Chunks)}
    <3>1. Cardinality(Chunks) \in Nat
      BY InjectAssumption, FS_CardinalityType
    <3>2. \E x \in S : \A y \in S : x <= y
      <4>1. 5 <= Cardinality(Chunks) \/ Cardinality(Chunks) <= 5
        BY <3>1
      <4> QED
        BY <3>1, <4>1 DEF DEFAULT_TOP_K
    <3>3. Min(S) \in S /\ \A y \in S : Min(S) <= y
      BY <3>2 DEF Min
    <3>4. Min(S) \in Nat /\ Min(S) <= 5
      BY <3>1, <3>3 DEF DEFAULT_TOP_K
    <3>5. 1..n \subseteq Ranks
      BY <3>4 DEF Ranks, DEFAULT_TOP_K
    <3>6. rs \in Results
      BY <3>5 DEF Results
    <3> QED
      BY <2>1, <2>3, <3>6
  <2> QED
    BY <2>2, <2>3 DEF Query
<1>3. /\ hook' \in [Hooks -> {"ready", "load", "done"} \cup Saving]
      /\ hook[h] = "ready" /\ hook'[h] = to
      /\ \A g \in Hooks \ {h} : hook'[g] = hook[g]
      /\ Running' = IF to = "done" THEN Running \ {h} ELSE Running \cup {h}
  BY <1>2, Moves
<1>4. "ready" \notin Saving /\ to \notin Saving
  BY DEF Saving
<1>5. InjectTypes'
  <2>1. \A g \in Running' : found'[g] \in Results
    BY <1>2, <1>3 DEF InjectTypes, Running
  <2>2. overlap' \in BOOLEAN
    BY <1>1, Zenon DEF InjectTypes
  <2> QED
    BY <1>1, <1>2, <1>3, <2>1, <2>2 DEF InjectTypes
<1>6. \A g \in Hooks : hook'[g] \in Saving =>
        hook'[g] = hook[g] /\ found'[g] = found[g] /\ g # h
  BY <1>2, <1>3, <1>4
<1>7. \A c : Given(c) => Given(c)'
  <2> SUFFICES ASSUME NEW c, Given(c) PROVE Given(c)'
    OBVIOUS
  <2>1. \A g \in Hooks : hook[g] \in Saving => hook'[g] = hook[g] /\ found'[g] = found[g]
    BY <1>2, <1>3, <1>4
  <2> QED
    BY <1>1, <2>1 DEF Given
<1>8. Remembered'
  BY <1>1, <1>7 DEF Remembered
<1>9. OneByOne'
  <2> SUFFICES ASSUME ~overlap, Running = {} PROVE OneByOne'
    BY <1>1 DEF OneByOne
  <2>1. \A g, k \in Running' : g = k
    BY <1>3
  <2>2. \A g \in Hooks : hook'[g] \notin Saving
    BY <1>6 DEF Running, Saving
  <2> QED
    BY <1>1, <2>1, <2>2 DEF OneByOne
<1> QED
  BY <1>5, <1>8, <1>9

\* What is given stays given while no process stops or changes what it found.
LEMMA GivenStays ==
  ASSUME shown' = shown,
         \A g \in Hooks : hook[g] \in Saving => hook'[g] \in Saving /\ found'[g] = found[g]
  PROVE  \A c : Given(c) => Given(c)'
BY DEF Given

\* The results that the session file does not name are new, and remembered.
LEMMA LoadKeeps ==
  ASSUME InjectInv, NEW h \in Hooks, Load(h)
  PROVE  InjectInv'
<1> USE DEF InjectInv
<1>0. PICK read \in {state, {}} :
        LET new == Restrict(found[h], {n \in DOMAIN found[h] : found[h][n] \notin read})
        IN  /\ Step(h, "load", IF DOMAIN new = {} THEN "done" ELSE "write")
            /\ found' = [found EXCEPT ![h] = new]
            /\ memory' = [memory EXCEPT ![h] = read \cup Range(new)]
            /\ forgotten' = forgotten \cup (state \ read)
            /\ UNCHANGED <<state, tmp, shown, killed, overlap>>
  BY DEF Load
<1> DEFINE new == Restrict(found[h], {n \in DOMAIN found[h] : found[h][n] \notin read})
           to  == IF DOMAIN new = {} THEN "done" ELSE "write"
<1>1. /\ UNCHANGED <<state, tmp, shown, killed, overlap>>
      /\ Step(h, "load", to)
      /\ found' = [found EXCEPT ![h] = new]
      /\ memory' = [memory EXCEPT ![h] = read \cup Range(new)]
      /\ forgotten' = forgotten \cup (state \ read)
      /\ read \subseteq state
  BY <1>0
<1>2. hook[h] = "load" /\ h \in Running
  BY <1>1 DEF Step, Running
<1>3. PICK D \in SUBSET Ranks : found[h] \in [D -> Chunks]
  BY <1>2 DEF InjectTypes, Results
<1>4. /\ new \in Results /\ Range(new) \subseteq Chunks \ read
      /\ DOMAIN new = {} => Range(new) = {}
  <2>1. /\ DOMAIN new = {n \in D : found[h][n] \notin read}
        /\ \A n \in DOMAIN new : new[n] = found[h][n] /\ new[n] \in Chunks
    BY <1>3 DEF Restrict
  <2>2. new \in [DOMAIN new -> Chunks]
    BY <1>3, <2>1 DEF Restrict
  <2>3. DOMAIN new \in SUBSET Ranks
    BY <2>1
  <2> QED
    BY <2>1, <2>2, <2>3 DEF Results, Range
<1>5. to \in {"done", "write"} /\ "load" \notin Saving /\ "write" \in Saving /\ "done" \notin Saving
  BY DEF Saving
<1>6. /\ hook' \in [Hooks -> {"ready", "load", "done"} \cup Saving]
      /\ hook'[h] = to /\ \A g \in Hooks \ {h} : hook'[g] = hook[g]
      /\ Running' = IF to = "done" THEN Running \ {h} ELSE Running \cup {h}
  BY <1>1, <1>5, Moves
<1> HIDE DEF new
<1>7. /\ found' \in [Hooks -> Results \cup {<<>>}] /\ found'[h] = new
      /\ memory' \in [Hooks -> SUBSET Chunks] /\ memory'[h] = read \cup Range(new)
      /\ \A g \in Hooks \ {h} : found'[g] = found[g] /\ memory'[g] = memory[g]
  BY <1>1, <1>4 DEF InjectTypes
<1>8. InjectTypes'
  <2>1. \A g \in Running' : found'[g] \in Results
    <3> SUFFICES ASSUME NEW g \in Running' PROVE found'[g] \in Results
      OBVIOUS
    <3>1. CASE g = h
      BY <1>4, <1>7, <3>1
    <3>2. CASE g # h
      <4>1. g \in Running
        BY <1>6, <3>2
      <4>2. g \in Hooks
        BY <4>1 DEF Running
      <4> QED
        BY <1>7, <3>2, <4>1, <4>2 DEF InjectTypes
    <3> QED
      BY <3>1, <3>2
  <2> QED
    BY <1>1, <1>6, <1>7, <2>1 DEF InjectTypes
<1>9. \A c : Given(c) => Given(c)'
  BY <1>1, <1>2, <1>5, <1>6, <1>7, GivenStays
<1>10. \A c \in Range(new) : Given(c)'
  <2> SUFFICES ASSUME NEW c \in Range(new) PROVE Given(c)'
    OBVIOUS
  <2>1. hook'[h] \in Saving /\ c \in Range(found'[h])
    BY <1>4, <1>5, <1>6, <1>7
  <2>2. Range(found[h])' = Range(found'[h])
    BY DEF Range
  <2> QED
    BY <2>1, <2>2 DEF Given
<1>11. Remembered'
  BY <1>1, <1>7, <1>9, <1>10 DEF Remembered
<1>12. OneByOne'
  <2> SUFFICES ASSUME ~overlap PROVE OneByOne'
    BY <1>1 DEF OneByOne
  <2>1. \A g, k \in Running' : g = k
    BY <1>2, <1>6 DEF OneByOne
  <2>2. \A g \in Hooks : hook'[g] \in Saving => g = h /\ hook'[g] = "write"
    <3>1. \A g \in Hooks : hook[g] \in Saving => g \in Running
      BY DEF Saving, Running
    <3> QED
      BY <1>2, <1>5, <1>6, <3>1 DEF OneByOne
  <2>3. \A c \in Range(new) : /\ c \in forgotten' \/ shown[c] = 0
                              /\ c \in memory'[h]
    <3> SUFFICES ASSUME NEW c \in Range(new) PROVE c \in forgotten' \/ shown[c] = 0
      BY <1>7
    <3>1. c \in Chunks /\ c \notin read
      BY <1>4
    <3>2. CASE c \in state
      BY <1>1, <3>1, <3>2
    <3>3. CASE c \notin state
      BY <1>1, <3>1, <3>3 DEF OneByOne, InjectTypes
    <3> QED
      BY <3>2, <3>3
  <2>4. state \subseteq memory'[h] \cup forgotten'
    BY <1>1, <1>7
  <2>5. Range(found[h])' = Range(new)
    BY <1>7 DEF Range
  <2>6. \A c \in Chunks \ forgotten' : shown[c] <= 1 /\ (shown[c] > 0 => c \in state)
    BY <1>1 DEF OneByOne
  <2>7. Range(new) \subseteq memory'[h]
    BY <1>7
  <2> QED
    BY <1>1, <2>1, <2>2, <2>3, <2>4, <2>5, <2>6, <2>7 DEF OneByOne
<1> QED
  BY <1>8, <1>11, <1>12

\* A step that saves, and prints nothing.
LEMMA SavingKeeps ==
  ASSUME InjectInv, NEW h \in Hooks, NEW from \in Saving, NEW to \in Saving, Step(h, from, to),
         UNCHANGED <<found, memory, shown, killed, overlap>>,
         forgotten' \subseteq Chunks,
         tmp' \in Hooks \cup {"none", "cut"},
         state' = state \/ state' = {} \/ \E g \in Hooks : state' = memory[g]
  PROVE  /\ InjectTypes' /\ Remembered'
         /\ hook[h] = from /\ hook'[h] = to
         /\ ~overlap => /\ \A g \in Hooks : hook'[g] \in Saving => g = h
                        /\ \A g, k \in Running' : g = k
<1> USE DEF InjectInv
<1>1. from # "done" /\ to # "done" /\ h \in Running
  BY DEF Saving, Step, Running
<1>2. /\ hook' \in [Hooks -> {"ready", "load", "done"} \cup Saving]
      /\ hook[h] = from /\ hook'[h] = to /\ \A g \in Hooks \ {h} : hook'[g] = hook[g]
      /\ Running' = Running
  <2>1. to \in {"done"} \cup {"load"} \cup Saving
    OBVIOUS
  <2>2. InjectTypes
    OBVIOUS
  <2>3. /\ hook' \in [Hooks -> {"ready", "load", "done"} \cup Saving]
        /\ hook[h] = from /\ hook'[h] = to /\ \A g \in Hooks \ {h} : hook'[g] = hook[g]
        /\ Running' = IF to = "done" THEN Running \ {h} ELSE Running \cup {h}
    BY <1>1, <2>1, <2>2, Moves
  <2> QED
    BY <1>1, <2>3
<1>3. InjectTypes'
  BY <1>2 DEF InjectTypes
<1>4. \A c : Given(c) => Given(c)'
  BY <1>2, GivenStays
<1>5. Remembered'
  BY <1>4 DEF Remembered
<1>6. \A g \in Hooks : hook'[g] \in Saving => g \in Running'
  BY <1>2 DEF Saving, Running
<1> QED
  BY <1>1, <1>2, <1>3, <1>5, <1>6 DEF OneByOne

\* The temporary file is cut, filled and renamed: alone, a process replaces the
\* session file by what it remembers.
LEMMA ReplaceKeeps ==
  ASSUME InjectInv, NEW h \in Hooks, TruncateTmp(h) \/ FillTmp(h) \/ Rename(h)
  PROVE  InjectInv'
<1> USE DEF InjectInv
<1>1. UNCHANGED <<found, memory, shown, forgotten, killed, overlap>>
  BY DEF TruncateTmp, FillTmp, Rename
<1>2. \A c \in {"none", "cut"} : c \notin Hooks
  BY InjectAssumption
<1>3. "write" \in Saving /\ "fill" \in Saving /\ "rename" \in Saving /\ "print" \in Saving
  BY DEF Saving
<1>4. PICK from \in {"write", "fill", "rename"}, to \in Saving : Step(h, from, to)
  BY <1>3 DEF TruncateTmp, FillTmp, Rename
<1>5. tmp \in Hooks \cup {"none", "cut"}
  BY DEF InjectTypes
<1>6. /\ tmp' \in Hooks \cup {"none", "cut"}
      /\ state' = state \/ state' = {} \/ \E g \in Hooks : state' = memory[g]
  BY <1>5 DEF TruncateTmp, FillTmp, Rename
<1>7. /\ InjectTypes' /\ Remembered'
      /\ hook[h] = from /\ hook'[h] = to
      /\ ~overlap => /\ \A g \in Hooks : hook'[g] \in Saving => g = h
                     /\ \A g, k \in Running' : g = k
  <2>1. from \in Saving
    BY <1>3
  <2>2. forgotten' \subseteq Chunks
    BY <1>1 DEF InjectTypes
  <2> QED
    BY <1>1, <1>4, <1>6, <2>1, <2>2, SavingKeeps
<1>8. OneByOne'
  <2> SUFFICES ASSUME ~overlap PROVE OneByOne'
    BY <1>1 DEF OneByOne
  <2>1. /\ \A c \in Chunks \ forgotten : shown[c] <= 1 /\ (shown[c] > 0 => c \in state)
        /\ \A c \in Range(found[h]) : c \in forgotten \/ shown[c] = 0
        /\ Range(found[h]) \subseteq memory[h]
        /\ state \subseteq memory[h] \cup forgotten
        /\ from = "fill" => tmp = "cut"
        /\ from = "rename" => tmp = h
    BY <1>3, <1>7 DEF OneByOne
  <2>2. CASE TruncateTmp(h)
    <3>1. from = "write" /\ to = "fill" /\ tmp' = "cut" /\ state' = state
      <4>1. hook[h] = "write" /\ hook' = [hook EXCEPT ![h] = "fill"]
        BY <2>2 DEF TruncateTmp, Step
      <4> QED
        BY <1>7, <2>2, <4>1 DEF TruncateTmp, InjectTypes
    <3> QED
      BY <1>1, <1>7, <2>1, <3>1 DEF OneByOne
  <2>3. CASE FillTmp(h)
    <3>1. from = "fill" /\ to = "rename"
      <4>1. hook[h] = "fill" /\ hook' = [hook EXCEPT ![h] = "rename"]
        BY <2>3 DEF FillTmp, Step
      <4> QED
        BY <1>7, <4>1 DEF InjectTypes
    <3>2. tmp' = h /\ state' = state
      BY <1>2, <2>1, <2>3, <3>1 DEF FillTmp
    <3> QED
      BY <1>1, <1>7, <2>1, <3>1, <3>2 DEF OneByOne
  <2>4. CASE Rename(h)
    <3>1. from = "rename" /\ to = "print"
      <4>1. hook[h] = "rename" /\ hook' = [hook EXCEPT ![h] = "print"]
        BY <2>4 DEF Rename, Step
      <4> QED
        BY <1>7, <4>1 DEF InjectTypes
    <3>2. state' = memory[h]
      BY <1>2, <2>1, <2>4, <3>1 DEF Rename
    <3>3. Range(found[h]) \subseteq memory[h]
      BY <2>1
    <3> QED
      BY <1>1, <1>7, <2>1, <3>1, <3>2, <3>3 DEF OneByOne
  <2> QED
    BY <2>2, <2>3, <2>4
<1> QED
  BY <1>7, <1>8

\* A save that fails leaves the session file as it was, and what it was to add is
\* forgotten.
LEMMA SaveFailsKeeps ==
  ASSUME InjectInv, NEW h \in Hooks, SaveFails(h)
  PROVE  InjectInv'
<1> USE DEF InjectInv
<1>1. /\ UNCHANGED <<found, memory, shown, killed, overlap>>
      /\ forgotten' = forgotten \cup Range(found[h])
      /\ hook' = [hook EXCEPT ![h] = "print"]
  BY DEF SaveFails
<1>2. PICK from \in {"write", "fill", "rename"} : hook[h] = from
  BY DEF SaveFails
<1>3. from \in Saving /\ "print" \in Saving /\ Step(h, from, "print") /\ h \in Running
  BY <1>1, <1>2 DEF Saving, Step, Running
<1>4. tmp' \in Hooks \cup {"none", "cut"} /\ (state' = state \/ state' = {})
  BY DEF SaveFails, InjectTypes
<1>5. Range(found[h]) \subseteq Chunks /\ forgotten' \subseteq Chunks
  BY <1>1, <1>3 DEF InjectTypes, Results, Range
<1>6. /\ InjectTypes' /\ Remembered'
      /\ hook[h] = from /\ hook'[h] = "print"
      /\ ~overlap => /\ \A g \in Hooks : hook'[g] \in Saving => g = h
                     /\ \A g, k \in Running' : g = k
  BY <1>1, <1>3, <1>4, <1>5, SavingKeeps
<1>7. OneByOne'
  <2> SUFFICES ASSUME ~overlap PROVE OneByOne'
    BY <1>1 DEF OneByOne
  <2>1. /\ \A c \in Chunks \ forgotten : shown[c] <= 1 /\ (shown[c] > 0 => c \in state)
        /\ Range(found[h]) \subseteq memory[h]
        /\ from = "fill" => tmp = "cut"
    BY <1>2, <1>3 DEF OneByOne
  <2>2. state' = state
    BY <1>2, <2>1 DEF SaveFails
  <2>3. \A c \in Chunks \ forgotten' : shown[c] <= 1 /\ (shown[c] > 0 => c \in state)
    BY <1>1, <2>1
  <2>4. Range(found[h])' = Range(found[h]) /\ Range(found[h]) \subseteq forgotten'
    BY <1>1 DEF Range
  <2> QED
    BY <1>1, <1>6, <2>1, <2>2, <2>3, <2>4 DEF OneByOne
<1> QED
  BY <1>6, <1>7

\* What a process found is printed, all of it.
LEMMA PrintKeeps ==
  ASSUME InjectInv, NEW h \in Hooks, PrintContext(h)
  PROVE  InjectInv'
<1> USE DEF InjectInv
<1>1. /\ Step(h, "print", "done")
      /\ UNCHANGED <<found, memory, state, tmp, forgotten, killed, overlap>>
      /\ shown' = [c \in Chunks |-> IF c \in FormatContext(found[h]) THEN shown[c] + 1
                                                                    ELSE shown[c]]
  BY DEF PrintContext
<1>2. hook[h] = "print" /\ h \in Running /\ "print" \in Saving /\ "done" \notin Saving
  BY <1>1 DEF Step, Running, Saving
<1>3. found[h] \in Results
  BY <1>2 DEF InjectTypes
<1>4. FormatContext(found[h]) = Range(found[h]) /\ Range(found[h]) \subseteq Chunks
  BY <1>3, AllFit DEF Results, Range
<1>5. /\ hook' \in [Hooks -> {"ready", "load", "done"} \cup Saving]
      /\ hook'[h] = "done" /\ \A g \in Hooks \ {h} : hook'[g] = hook[g]
      /\ Running' = Running \ {h}
  BY <1>1, Moves
<1>6. /\ shown' \in [Chunks -> Nat] /\ shown \in [Chunks -> Nat]
      /\ \A c \in Chunks : shown'[c] >= shown[c]
      /\ \A c \in Range(found[h]) : shown'[c] = shown[c] + 1
      /\ \A c \in Chunks \ Range(found[h]) : shown'[c] = shown[c]
  BY <1>1, <1>4 DEF InjectTypes
<1>7. InjectTypes'
  BY <1>1, <1>5, <1>6 DEF InjectTypes
<1>8. \A c \in Chunks : Given(c) => Given(c)'
  <2> SUFFICES ASSUME NEW c \in Chunks, Given(c), ~(shown'[c] > 0) PROVE Given(c)'
    BY DEF Given
  <2>1. ~(shown[c] > 0) /\ c \notin Range(found[h])
    BY <1>6
  <2>2. PICK g \in Hooks : hook[g] \in Saving /\ c \in Range(found[g])
    BY <2>1 DEF Given
  <2>3. hook'[g] \in Saving /\ found'[g] = found[g]
    BY <1>1, <1>5, <2>1, <2>2
  <2> QED
    BY <1>1, <2>2, <2>3 DEF Given
<1>9. Remembered'
  <2>1. state \subseteq Chunks /\ \A g \in Hooks : memory[g] \subseteq Chunks
    BY DEF InjectTypes
  <2> QED
    BY <1>1, <1>8, <2>1 DEF Remembered
<1>10. OneByOne'
  <2> SUFFICES ASSUME ~overlap PROVE OneByOne'
    BY <1>1 DEF OneByOne
  <2>1. \A g \in Hooks : hook'[g] \notin Saving
    <3>1. \A g \in Hooks : hook[g] \in Saving => g = h
      BY <1>2 DEF OneByOne, Running, Saving
    <3> QED
      BY <1>2, <1>5, <3>1
  <2>2. \A g, k \in Running' : g = k
    BY <1>5 DEF OneByOne
  <2>3. \A c \in Range(found[h]) \ forgotten : shown[c] = 0 /\ c \in state
    BY <1>2 DEF OneByOne
  <2>4. \A c \in Chunks \ forgotten : shown'[c] <= 1 /\ (shown'[c] > 0 => c \in state)
    BY <1>6, <2>3 DEF OneByOne
  <2> QED
    BY <1>1, <2>1, <2>2, <2>4 DEF OneByOne
<1> QED
  BY <1>7, <1>9, <1>10

\* A process that is killed prints nothing, and leaves a temporary file that the
\* next one cuts.
LEMMA KillKeeps ==
  ASSUME InjectInv, NEW h \in Hooks, Kill(h)
  PROVE  InjectInv'
<1> USE DEF InjectInv
<1>1. /\ UNCHANGED <<found, memory, state, tmp, shown, forgotten, overlap>> /\ killed' = TRUE
      /\ hook' = [hook EXCEPT ![h] = "done"]
  BY DEF Kill
<1>2. /\ hook' \in [Hooks -> {"ready", "load", "done"} \cup Saving]
      /\ hook'[h] = "done" /\ \A g \in Hooks \ {h} : hook'[g] = hook[g]
      /\ Running' \subseteq Running /\ "done" \notin Saving
  BY <1>1 DEF InjectTypes, Running, Saving
<1>3. InjectTypes'
  BY <1>1, <1>2 DEF InjectTypes
<1>4. Remembered'
  BY <1>1 DEF Remembered
<1>5. OneByOne'
  <2>1. \A g \in Hooks : hook'[g] \in Saving => hook'[g] = hook[g]
    BY <1>2
  <2> QED
    BY <1>1, <1>2, <2>1 DEF OneByOne
<1> QED
  BY <1>3, <1>4, <1>5

\* The invariant is inductive.
LEMMA InjectStepInv == InjectInv /\ [InjectNext]_injectVars => InjectInv'
<1> SUFFICES ASSUME InjectInv, [InjectNext]_injectVars PROVE InjectInv'
  OBVIOUS
<1>1. CASE UNCHANGED injectVars
  BY <1>1 DEF injectVars, InjectInv, InjectTypes, Remembered, OneByOne, Given, Running
<1> QED
  BY <1>1, QueryKeeps, LoadKeeps, ReplaceKeeps, SaveFailsKeeps, PrintKeeps, KillKeeps DEF InjectNext, InjectHook

\* However many prompts a session has, wherever its processes are killed and
\* whichever of their reads and writes fail: as long as no two prompts overlap, a
\* chunk is given once unless a failed read or save kept it from the session file,
\* and what is remembered was given when none was killed.
THEOREM SessionsAreGivenTheirContext == InjectSpec => []ContextGiven
<1>1. InjectSpec => []InjectInv
  BY InjectInitInv, InjectStepInv, PTL DEF InjectSpec
<1> QED
  BY <1>1, InjectInvSound, PTL

-----------------------------------------------------------------------------
(* The prompts of the wizard.                                              *)

\* The list on the screen has the entries it was offered with; what MenuSound does
\* not say is that an entry stays disabled.
MenuInv ==
  /\ items \in Seq(Entries) /\ prompt \in {"checkbox", "select"}
  /\ active \in DOMAIN items /\ DOMAIN offered = DOMAIN items
  /\ (\E i \in DOMAIN items : IsNavigable(i)) => IsNavigable(active)
  /\ \A i \in DOMAIN items :
       /\ items[i].separator = offered[i].separator
       /\ items[i].disabled = offered[i].disabled
       /\ ~IsSelectable(i) => items[i] = offered[i]
  /\ outcome = "answered" =>
       chosen = IF prompt = "select" THEN {active} ELSE {i \in DOMAIN items : IsChecked(i)}
  /\ outcome # "answered" => chosen = {}

\* Least is the least of a set of numbers.
LEMMA LeastIsLeast ==
  ASSUME NEW S, S \subseteq Nat, S # {}
  PROVE  Least(S) \in S /\ \A j \in S : Least(S) <= j
<1>1. IsWellFoundedOn(OpToRel(<, Nat), Nat)
  BY NatLessThanWellFounded
<1>2. PICK n \in S : \A y \in S : ~(<<y, n>> \in OpToRel(<, Nat))
  BY <1>1, WFMin
<1>3. \A y \in S : ~(y < n)
  BY <1>2 DEF OpToRel
<1>4. \A y \in S : n <= y
  BY <1>3
<1> QED
  BY <1>4 DEF Least

\* A full turn leads back.
LEMMA FullTurn ==
  ASSUME NEW n \in Nat \ {0}, NEW r \in 0..n - 1
  PROVE  r % n = r /\ (r + n) % n = r
OBVIOUS

\* However far the cursor is moved, it is on the list.
LEMMA Remainder ==
  ASSUME NEW n \in Nat \ {0}, NEW r \in Int
  PROVE  (r % n) + 1 \in 1..n
OBVIOUS

\* A key up or down leads to an entry that is no separator, or stays where it is.
LEMMA NextEntryStops ==
  ASSUME items \in Seq(Entries), active \in DOMAIN items, NEW down \in BOOLEAN
  PROVE  LET next == NextEntry(active, down)
         IN  next \in DOMAIN items /\ (IsNavigable(next) \/ next = active)
<1> DEFINE n == Len(items)
           at(k) == IF down THEN ((active - 1 + k) % n) + 1 ELSE ((active - 1 + n - k) % n) + 1
           stops == {k \in 1..n : IsNavigable(at(k)) \/ at(k) = active}
<1>1. n \in Nat \ {0} /\ active \in 1..n /\ DOMAIN items = 1..n
  <2>1. n \in Nat /\ DOMAIN items = 1..n
    OBVIOUS
  <2> QED
    BY <2>1
<1>2. NextEntry(active, down) = at(Least(stops))
  BY DEF NextEntry
<1> HIDE DEF n
<1>3. \A k \in 1..n : at(k) \in 1..n
  <2> TAKE k \in 1..n
  <2>1. active - 1 + k \in Int /\ active - 1 + n - k \in Int
    BY <1>1
  <2> QED
    BY <1>1, <2>1, Remainder
<1>4. at(n) = active
  <2>1. active - 1 \in 0..n - 1 /\ active - 1 + n - n = active - 1
    BY <1>1
  <2>2. (active - 1) % n = active - 1 /\ (active - 1 + n) % n = active - 1
    BY <1>1, <2>1, FullTurn
  <2>3. CASE down
    BY <1>1, <2>2, <2>3
  <2>4. CASE ~down
    BY <1>1, <2>1, <2>2, <2>4
  <2> QED
    BY <2>3, <2>4
<1> HIDE DEF at
<1>5. n \in stops /\ stops \subseteq Nat
  BY <1>1, <1>4
<1>6. Least(stops) \in stops
  BY <1>5, LeastIsLeast
<1> QED
  BY <1>1, <1>2, <1>3, <1>6

\* What a key does to the ticks: an entry that may be ticked, or none.
LEMMA TicksKeep ==
  ASSUME MenuInv, Open, prompt = "checkbox", items' \in Seq(Entries),
         active' \in DOMAIN items, IsNavigable(active)' \/ active' = active,
         DOMAIN items' = DOMAIN items,
         \A i \in DOMAIN items :
           \/ items'[i] = items[i]
           \/ IsSelectable(i) /\ \E b \in BOOLEAN : items'[i] = [items[i] EXCEPT !.checked = b],
         UNCHANGED <<prompt, outcome, chosen, offered>>
  PROVE  MenuInv'
<1>1. \A i \in DOMAIN items :
        /\ items'[i].separator = items[i].separator
        /\ items'[i].disabled = items[i].disabled
        /\ ~IsSelectable(i) => items'[i] = items[i]
  <2> TAKE i \in DOMAIN items
  <2>1. items[i] \in Entries
    BY DEF MenuInv
  <2> QED
    BY <2>1 DEF Entries
<1>2. \A i \in DOMAIN items : IsNavigable(i)' = IsNavigable(i) /\ IsSelectable(i)' = IsSelectable(i)
  BY <1>1 DEF IsNavigable, IsSelectable
<1>3. outcome # "answered" /\ outcome' # "answered" /\ chosen' = {}
  BY DEF MenuInv, Open
<1>4. ASSUME NEW i \in DOMAIN items, ~IsSelectable(i)' PROVE items'[i] = offered'[i]
  BY <1>1, <1>2, <1>4 DEF MenuInv
<1>5. (\E i \in DOMAIN items' : IsNavigable(i)') => IsNavigable(active)'
  BY <1>2 DEF MenuInv
<1> QED
  BY <1>1, <1>2, <1>3, <1>4, <1>5 DEF MenuInv

\* The list as it is first drawn, with the cursor on an entry that can be taken.
LEMMA MenuInitInv == MenuInit => MenuInv
<1> SUFFICES ASSUME MenuInit PROVE MenuInv
  OBVIOUS
<1> DEFINE entries == {i \in DOMAIN items : IsNavigable(i)}
<1>1. items \in Seq(Entries) /\ items # <<>>
  BY MenuAssumption DEF MenuInit
<1>2. Len(items) \in Nat \ {0} /\ DOMAIN items = 1..Len(items)
  BY <1>1
<1>3. active \in DOMAIN items /\ (entries # {} => IsNavigable(active))
  <2>1. CASE prompt = "select"
    BY <2>1 DEF MenuInit, IsSelectable
  <2>2. CASE prompt # "select" /\ entries = {}
    BY <1>2, <2>2 DEF MenuInit
  <2>3. CASE prompt # "select" /\ entries # {}
    <3>1. active = Least(entries)
      BY <2>3 DEF MenuInit
    <3>2. Least(entries) \in entries
      BY <1>2, <2>3, LeastIsLeast
    <3> QED
      BY <3>1, <3>2
  <2> QED
    BY <2>1, <2>2, <2>3
<1> QED
  BY <1>1, <1>3 DEF MenuInit, MenuInv

\* Every key keeps the cursor on an entry that can be taken.
LEMMA MenuStepInv == MenuInv /\ [MenuNext]_menuVars => MenuInv'
<1> SUFFICES ASSUME MenuInv, [MenuNext]_menuVars PROVE MenuInv'
  OBVIOUS
<1>1. ASSUME NEW how \in {"back", "exit"}, LeaveMenu(how) PROVE MenuInv'
  <2>1. outcome' # "answered" /\ outcome # "answered"
    BY <1>1 DEF LeaveMenu, Open
  <2> QED
    BY <1>1, <2>1 DEF LeaveMenu, MenuInv, IsNavigable, IsSelectable
<1>2. CASE Enter
  BY <1>2 DEF Enter, MenuInv, IsNavigable, IsSelectable, IsChecked
<1>3. ASSUME NEW S, S \subseteq DOMAIN items
      PROVE  /\ Toggled(S) \in Seq(Entries) /\ DOMAIN Toggled(S) = DOMAIN items
             /\ \A i \in DOMAIN items :
                  \/ Toggled(S)[i] = items[i]
                  \/ /\ IsSelectable(i)
                     /\ \E b \in BOOLEAN : Toggled(S)[i] = [items[i] EXCEPT !.checked = b]
  <2>1. \A i \in DOMAIN items : items[i] \in Entries
    BY DEF MenuInv
  <2>2. ASSUME NEW e \in Entries
        PROVE  (~e.checked) \in BOOLEAN /\ [e EXCEPT !.checked = ~e.checked] \in Entries
    <3>1. (~e.checked) \in BOOLEAN
      BY Zenon
    <3>2. \A b \in BOOLEAN : [e EXCEPT !.checked = b] \in Entries
      BY DEF Entries
    <3> QED
      BY <3>1, <3>2, Zenon
  <2>3. Toggled(S) \in [DOMAIN items -> Entries]
    BY <2>1, <2>2 DEF Toggled
  <2>4. Toggled(S) \in Seq(Entries)
    BY <2>3 DEF MenuInv
  <2>5. \A i \in DOMAIN items :
          \/ Toggled(S)[i] = items[i]
          \/ IsSelectable(i) /\ Toggled(S)[i] = [items[i] EXCEPT !.checked = ~items[i].checked]
    BY DEF Toggled
  <2> QED
    BY <2>1, <2>2, <2>3, <2>4, <2>5
<1>4. CASE Space
  <2>1. active \in DOMAIN items
    BY DEF MenuInv
  <2> QED
    BY <1>3, <1>4, <2>1, TicksKeep DEF Space
<1>5. CASE Invert
  BY <1>3, <1>5, TicksKeep DEF Invert, MenuInv
<1>6. CASE All
  <2> DEFINE some == \E i \in DOMAIN items : IsSelectable(i) /\ ~IsChecked(i)
             ticked == [i \in DOMAIN items |-> IF IsSelectable(i)
                                               THEN [items[i] EXCEPT !.checked = some] ELSE items[i]]
  <2>1. items' = ticked /\ some \in BOOLEAN
    BY <1>6 DEF All
  <2> HIDE DEF some
  <2>2. \A i \in DOMAIN items : items[i] \in Entries
    BY DEF MenuInv
  <2>3. ticked \in [DOMAIN items -> Entries]
    BY <2>1, <2>2 DEF Entries
  <2>4. ticked \in Seq(Entries)
    BY <2>3 DEF MenuInv
  <2>5. \A i \in DOMAIN items :
          \/ ticked[i] = items[i]
          \/ IsSelectable(i) /\ ticked[i] = [items[i] EXCEPT !.checked = some]
    BY Zenon
  <2> HIDE DEF ticked
  <2> QED
    BY <1>6, <2>1, <2>3, <2>4, <2>5, TicksKeep DEF All, MenuInv
<1>7. ASSUME NEW down \in BOOLEAN, Move(down) PROVE MenuInv'
  <2>1. active' \in DOMAIN items /\ (IsNavigable(active') \/ active' = active)
    BY <1>7, NextEntryStops DEF Move, MenuInv
  <2>2. outcome # "answered"
    BY <1>7 DEF Move, Open
  <2>3. UNCHANGED <<prompt, items, outcome, chosen, offered>>
    BY <1>7 DEF Move
  <2> QED
    BY <2>1, <2>2, <2>3 DEF MenuInv, IsNavigable, IsSelectable
<1>8. ASSUME NEW d \in 1..MaxNumber, Digit(d) PROVE MenuInv'
  <2>1. PICK i \in DOMAIN items : IsSelectable(i) /\ active' = i /\ items' = Toggled({i})
    BY <1>8 DEF Digit
  <2>2. items'[i].separator = items[i].separator
    <3>1. items[i] \in Entries
      BY DEF MenuInv
    <3>2. \/ items'[i] = items[i]
          \/ \E b \in BOOLEAN : items'[i] = [items[i] EXCEPT !.checked = b]
      BY <1>3, <2>1, Zenon
    <3> QED
      BY <3>1, <3>2 DEF Entries
  <2>3. IsNavigable(active)'
    BY <2>1, <2>2 DEF IsSelectable, IsNavigable
  <2> QED
    BY <1>3, <1>8, <2>1, <2>3, TicksKeep DEF Digit
<1>9. CASE UNCHANGED menuVars
  BY <1>9 DEF menuVars, MenuInv, IsNavigable, IsSelectable, IsChecked
<1> QED
  BY <1>1, <1>2, <1>4, <1>5, <1>6, <1>7, <1>8, <1>9 DEF MenuNext

\* Whatever list is offered and whichever keys are pressed (checkbox-nav.ts): the cursor
\* is on an entry if there is one, disabled entries keep their tick, and what is taken
\* is what is ticked.
THEOREM PromptsTakeWhatTheyShow == MenuSpec => []MenuSound
<1>1. MenuInv => MenuSound
  BY DEF MenuInv, MenuSound
<1> QED
  BY <1>1, MenuInitInv, MenuStepInv, PTL DEF MenuSpec

-----------------------------------------------------------------------------
(* The skills.                                                             *)

SkillTypes ==
  /\ newest \in 1..MaxContent /\ package \in [Skills -> 0..newest]
  /\ disk \in [Skills -> 0..Broken] /\ manifest \in [Skills -> 0..Broken]
  /\ sync = [at |-> sync.at, mem |-> sync.mem, todo |-> sync.todo]
  /\ sync.at \in {"idle", "copy", "delete", "manifest"}
  /\ sync.mem \in [Skills -> 0..newest] /\ sync.todo \subseteq Skills
  /\ fresh \in BOOLEAN /\ cut \in BOOLEAN

\* A manifest is torn as a whole or not at all; one that can be read records no content
\* that is still to be published.
ManifestReadable ==
  \/ \A f \in Skills : manifest[f] = Broken
  \/ \A f \in Skills : manifest[f] <= newest

\* A skill whose content the manifest calls current is current: a file that a kill
\* cut, or wrote and did not record, was another version in the manifest.
RecordedIsOnDisk ==
  \A f \in Skills : package[f] # 0 /\ manifest[f] = package[f] => disk[f] = package[f]

\* A sync that copies knows of the files to do what the manifest says; of those done
\* it has written the present content.
Copied ==
  /\ sync.at = "copy" =>
       /\ \A f \in sync.todo : sync.mem[f] = IF manifest[f] = Broken THEN 0 ELSE manifest[f]
       /\ \A f \in Skills : package[f] # 0 => f \in sync.todo \/ disk[f] = package[f]
       /\ \A f \in Skills : package[f] # 0 => f \in sync.todo \/ sync.mem[f] = package[f]
  /\ sync.at \in {"delete", "manifest"} =>
       \A f \in Skills : package[f] # 0 => sync.mem[f] = package[f] /\ disk[f] = package[f]

\* As long as no sync was killed, the manifest is the directory, and what leaves the
\* package leaves both.
Removed ==
  ~cut =>
    /\ sync.at = "idle" => disk = manifest
    /\ sync.at # "idle" => disk = sync.mem
    /\ \A f \in Skills : disk[f] <= newest
    /\ sync.at = "delete" =>
         \A f \in Skills : package[f] = 0 /\ disk[f] # 0 => f \in sync.todo
    /\ sync.at = "manifest" => \A f \in Skills : package[f] = 0 => disk[f] = 0

\* The files to copy are those of the package, the files to delete none of them.
Sorted ==
  /\ sync.at = "copy" => \A f \in sync.todo : package[f] # 0
  /\ sync.at = "delete" => \A f \in sync.todo : package[f] = 0

SkillsInv ==
  /\ SkillTypes /\ ManifestReadable /\ RecordedIsOnDisk /\ Copied /\ Removed /\ Sorted
  /\ SkillsCurrent /\ NoLeftoverSkill

\* Nothing is installed and nothing is recorded.
LEMMA SkillsInitInv == AgentInit => SkillsInv
<1> SUFFICES ASSUME AgentInit PROVE SkillsInv
  OBVIOUS
<1>1. newest \in 1..MaxContent /\ newest = 1 /\ Broken \in Nat
  BY AgentAssumption DEF AgentInit, Broken
<1>2. Nothing \in [Skills -> 0..newest] /\ Nothing \in [Skills -> 0..Broken]
  BY <1>1 DEF Nothing
<1>3. package \in [Skills -> 0..newest]
  BY <1>1 DEF AgentInit
<1>4. sync = [at |-> "idle", mem |-> Nothing, todo |-> {}]
  BY DEF AgentInit, NoSync
<1>5. SkillTypes
  <2>1. sync.at = "idle" /\ sync.mem = Nothing /\ sync.todo = {}
    BY <1>4
  <2>2. sync = [at |-> sync.at, mem |-> sync.mem, todo |-> sync.todo]
    BY <1>4, <2>1
  <2>3. disk = Nothing /\ manifest = Nothing /\ fresh \in BOOLEAN /\ cut \in BOOLEAN
    BY DEF AgentInit
  <2>4. /\ sync.mem \in [Skills -> 0..newest] /\ sync.todo \subseteq Skills
        /\ disk \in [Skills -> 0..Broken] /\ manifest \in [Skills -> 0..Broken]
    BY <1>2, <2>1, <2>3
  <2> QED
    BY <1>1, <1>3, <2>1, <2>2, <2>3, <2>4 DEF SkillTypes
<1> QED
  BY <1>1, <1>5 DEF SkillsInv, ManifestReadable, RecordedIsOnDisk, Copied, Removed, Sorted,
       SkillsCurrent, NoLeftoverSkill, AgentInit, NoSync, Nothing

\* Versions that were published are no torn files.
LEMMA NewestIsWhole ==
  ASSUME SkillTypes
  PROVE  newest \in Nat /\ Broken \in Nat /\ newest < Broken /\ newest <= MaxContent
BY AgentAssumption DEF SkillTypes, Broken

\* A new package leaves what is installed and what is recorded alone.
LEMMA PublishKeeps ==
  ASSUME SkillsInv, PublishSkills
  PROVE  SkillsInv'
<1>1. PICK changed \in SUBSET Skills, removed \in SUBSET Skills :
           package' = [f \in Skills |-> IF f \in changed THEN newest'
                                        ELSE IF f \in removed THEN 0 ELSE package[f]]
  BY DEF PublishSkills
<1>2. /\ newest' = newest + 1 /\ newest' \in 1..MaxContent /\ newest \in Nat
      /\ newest' < Broken /\ Broken \in Nat
  BY NewestIsWhole, AgentAssumption DEF SkillsInv, SkillTypes, PublishSkills, Broken
<1>3. /\ sync.at = "idle" /\ fresh' = FALSE
      /\ UNCHANGED <<disk, manifest, sync, cut>>
  BY DEF PublishSkills
<1>4. SkillTypes'
  <2>1. package' \in [Skills -> 0..newest']
    BY <1>1, <1>2 DEF SkillsInv, SkillTypes
  <2>2. sync.mem \in [Skills -> 0..newest']
    BY <1>2 DEF SkillsInv, SkillTypes
  <2> QED
    BY <1>2, <1>3, <2>1, <2>2 DEF SkillsInv, SkillTypes, Broken
<1>5. ManifestReadable'
  BY <1>2, <1>3 DEF SkillsInv, SkillTypes, ManifestReadable, Broken
<1>6. RecordedIsOnDisk'
  <2> SUFFICES ASSUME NEW f \in Skills, package'[f] # 0, manifest[f] = package'[f]
               PROVE  disk[f] = package'[f]
    BY <1>3 DEF RecordedIsOnDisk
  <2>1. manifest[f] = Broken \/ manifest[f] <= newest
    BY DEF SkillsInv, ManifestReadable
  <2>2. package'[f] # newest'
    BY <1>2, <2>1
  <2>3. package'[f] = package[f]
    BY <1>1, <2>2
  <2> QED
    BY <2>3 DEF SkillsInv, RecordedIsOnDisk
<1>7. Copied' /\ Sorted' /\ SkillsCurrent' /\ NoLeftoverSkill'
  BY <1>3 DEF Copied, Sorted, SkillsCurrent, NoLeftoverSkill
<1>8. Removed'
  BY <1>2, <1>3 DEF SkillsInv, SkillTypes, Removed
<1> QED
  BY <1>4, <1>5, <1>6, <1>7, <1>8 DEF SkillsInv

\* A sync begins from the manifest, or from none when it cannot be read.
LEMMA SyncStartKeeps ==
  ASSUME SkillsInv, SyncStart
  PROVE  SkillsInv'
<1> DEFINE torn == \E f \in Skills : manifest[f] = Broken
           todo == {f \in Skills : package[f] # 0}
           mem  == IF torn THEN Nothing ELSE manifest
<1>1. /\ sync.at = "idle" /\ sync' = [at |-> "copy", todo |-> todo, mem |-> mem]
      /\ UNCHANGED <<package, newest, disk, manifest, fresh, cut>>
  BY DEF SyncStart
<1>2. newest \in Nat /\ Broken \in Nat /\ newest < Broken
  BY NewestIsWhole DEF SkillsInv
<1>3. torn => \A f \in Skills : manifest[f] = Broken
  BY <1>2 DEF SkillsInv, ManifestReadable
<1>4. mem \in [Skills -> 0..newest]
  <2>1. CASE torn
    BY <1>2, <2>1 DEF Nothing
  <2>2. CASE ~torn
    BY <1>2, <2>2 DEF SkillsInv, SkillTypes, ManifestReadable
  <2> QED
    BY <2>1, <2>2
<1>5. \A f \in Skills : mem[f] = IF manifest[f] = Broken THEN 0 ELSE manifest[f]
  BY <1>3 DEF Nothing
<1>6. ~cut => mem = disk
  <2> SUFFICES ASSUME ~cut PROVE mem = disk
    OBVIOUS
  <2>1. disk = manifest /\ \A f \in Skills : disk[f] <= newest
    BY <1>1 DEF SkillsInv, Removed
  <2>2. ~torn
    BY <1>2, <2>1
  <2> QED
    BY <2>1, <2>2
<1> HIDE DEF mem, torn
<1>7. SkillTypes'
  BY <1>1, <1>4 DEF SkillsInv, SkillTypes
<1>8. Copied' /\ Sorted'
  BY <1>1, <1>5 DEF Copied, Sorted
<1>9. Removed'
  BY <1>1, <1>6 DEF SkillsInv, Removed
<1> QED
  BY <1>1, <1>7, <1>8, <1>9 DEF SkillsInv, ManifestReadable, RecordedIsOnDisk, SkillsCurrent,
       NoLeftoverSkill

\* One file of the package is looked at, and copied when it changed.
LEMMA SyncCopyKeeps ==
  ASSUME SkillsInv, SyncCopy
  PROVE  SkillsInv'
<1>1. sync.at = "copy" /\ UNCHANGED <<package, newest, manifest, fresh, cut>>
  BY DEF SyncCopy
<1>2. newest \in Nat /\ Broken \in Nat /\ newest < Broken /\ newest <= MaxContent
  BY NewestIsWhole DEF SkillsInv
<1>3. ASSUME NEW f \in sync.todo,
             disk' = IF sync.mem[f] # package[f] THEN [disk EXCEPT ![f] = package[f]] ELSE disk,
             sync' = [sync EXCEPT !.mem[f] = package[f], !.todo = @ \ {f}]
      PROVE  SkillsInv'
  <2>1. f \in Skills /\ package[f] # 0 /\ package[f] \in 0..newest
    BY <1>1 DEF SkillsInv, SkillTypes, Sorted
  <2>2. /\ sync'.at = "copy" /\ sync'.todo = sync.todo \ {f}
        /\ sync'.mem = [sync.mem EXCEPT ![f] = package[f]]
        /\ sync' = [at |-> sync'.at, mem |-> sync'.mem, todo |-> sync'.todo]
    BY <1>1, <1>3 DEF SkillsInv, SkillTypes
  <2>3. /\ disk'[f] = package[f]
        /\ \A g \in Skills : g # f => disk'[g] = disk[g]
        /\ disk' \in [Skills -> 0..Broken]
    <3>1. CASE sync.mem[f] # package[f]
      BY <1>2, <1>3, <2>1, <3>1 DEF SkillsInv, SkillTypes
    <3>2. CASE sync.mem[f] = package[f]
      <4>1. manifest[f] = package[f]
        BY <1>1, <1>2, <2>1, <3>2 DEF SkillsInv, Copied, ManifestReadable
      <4> QED
        BY <1>3, <2>1, <3>2, <4>1 DEF SkillsInv, SkillTypes, RecordedIsOnDisk
    <3> QED
      BY <3>1, <3>2
  <2>4. /\ sync'.mem \in [Skills -> 0..newest] /\ sync'.mem[f] = package[f]
        /\ \A g \in Skills : g # f => sync'.mem[g] = sync.mem[g]
    BY <2>1, <2>2 DEF SkillsInv, SkillTypes
  <2>5. SkillTypes'
    BY <1>1, <2>2, <2>3, <2>4 DEF SkillsInv, SkillTypes
  <2>6. ManifestReadable' /\ RecordedIsOnDisk' /\ SkillsCurrent'
    BY <1>1, <2>3 DEF SkillsInv, ManifestReadable, RecordedIsOnDisk, SkillsCurrent
  <2>7. Copied' /\ Sorted'
    <3>1. \A g \in sync'.todo :
            sync'.mem[g] = IF manifest[g] = Broken THEN 0 ELSE manifest[g]
      BY <1>1, <2>2, <2>4 DEF SkillsInv, SkillTypes, Copied
    <3>2. \A g \in Skills : package[g] # 0 =>
            g \in sync'.todo \/ (disk'[g] = package[g] /\ sync'.mem[g] = package[g])
      BY <1>1, <2>2, <2>3, <2>4 DEF SkillsInv, Copied
    <3> QED
      BY <1>1, <2>2, <3>1, <3>2 DEF SkillsInv, Copied, Sorted
  <2>8. NoLeftoverSkill'
    BY <1>1, <2>1, <2>3 DEF SkillsInv, NoLeftoverSkill
  <2>9. Removed'
    <3> SUFFICES ASSUME ~cut
                 PROVE  disk' = sync'.mem /\ \A g \in Skills : disk'[g] <= newest
      BY <1>1, <2>2 DEF Removed
    <3>1. disk = sync.mem /\ \A g \in Skills : disk[g] <= newest
      BY <1>1 DEF SkillsInv, Removed
    <3>2. \A g \in Skills : disk'[g] = sync'.mem[g]
      BY <2>3, <2>4, <3>1
    <3>3. disk' = sync'.mem
      BY <2>3, <2>4, <3>2
    <3> QED
      BY <1>2, <2>4, <3>3
  <2> QED
    BY <2>5, <2>6, <2>7, <2>8, <2>9 DEF SkillsInv
<1>4. ASSUME sync.todo = {}, disk' = disk,
             sync' = [sync EXCEPT !.at = "delete",
                                  !.todo = {f \in Skills : package[f] = 0 /\ sync.mem[f] # 0}]
      PROVE  SkillsInv'
  <2>1. /\ sync'.at = "delete" /\ sync'.mem = sync.mem
        /\ sync'.todo = {f \in Skills : package[f] = 0 /\ sync.mem[f] # 0}
        /\ sync' = [at |-> sync'.at, mem |-> sync'.mem, todo |-> sync'.todo]
    BY <1>1, <1>4 DEF SkillsInv, SkillTypes
  <2>2. SkillTypes'
    BY <1>1, <1>4, <2>1 DEF SkillsInv, SkillTypes
  <2>3. ManifestReadable' /\ RecordedIsOnDisk' /\ SkillsCurrent' /\ NoLeftoverSkill'
    BY <1>1, <1>4 DEF SkillsInv, ManifestReadable, RecordedIsOnDisk, SkillsCurrent,
         NoLeftoverSkill
  <2>4. Copied' /\ Sorted'
    BY <1>1, <1>4, <2>1 DEF SkillsInv, Copied, Sorted
  <2>5. Removed'
    BY <1>1, <1>4, <2>1 DEF SkillsInv, Removed
  <2> QED
    BY <2>2, <2>3, <2>4, <2>5 DEF SkillsInv
<1> QED
  BY <1>3, <1>4 DEF SyncCopy

\* One file the package no longer has is deleted.
LEMMA SyncDeleteKeeps ==
  ASSUME SkillsInv, SyncDelete
  PROVE  SkillsInv'
<1>1. sync.at = "delete" /\ UNCHANGED <<package, newest, manifest, fresh, cut>>
  BY DEF SyncDelete
<1>2. newest \in Nat /\ Broken \in Nat /\ newest < Broken
  BY NewestIsWhole DEF SkillsInv
<1>3. ASSUME NEW f \in sync.todo, disk' = [disk EXCEPT ![f] = 0],
             sync' = [sync EXCEPT !.mem[f] = 0, !.todo = @ \ {f}]
      PROVE  SkillsInv'
  <2>1. f \in Skills /\ package[f] = 0
    BY <1>1 DEF SkillsInv, SkillTypes, Sorted
  <2>2. /\ sync'.at = "delete" /\ sync'.todo = sync.todo \ {f}
        /\ sync'.mem = [sync.mem EXCEPT ![f] = 0]
        /\ sync' = [at |-> sync'.at, mem |-> sync'.mem, todo |-> sync'.todo]
    BY <1>1, <1>3 DEF SkillsInv, SkillTypes
  <2>3. /\ disk'[f] = 0 /\ \A g \in Skills : g # f => disk'[g] = disk[g]
        /\ disk' \in [Skills -> 0..Broken]
    BY <1>2, <1>3, <2>1 DEF SkillsInv, SkillTypes
  <2>4. /\ sync'.mem \in [Skills -> 0..newest] /\ sync'.mem[f] = 0
        /\ \A g \in Skills : g # f => sync'.mem[g] = sync.mem[g]
    BY <1>2, <2>1, <2>2 DEF SkillsInv, SkillTypes
  <2>5. SkillTypes'
    BY <1>1, <2>2, <2>3, <2>4 DEF SkillsInv, SkillTypes
  <2>6. \A g \in Skills : package[g] # 0 => disk'[g] = disk[g] /\ sync'.mem[g] = sync.mem[g]
    BY <2>1, <2>3, <2>4
  <2>7. ManifestReadable' /\ RecordedIsOnDisk' /\ SkillsCurrent' /\ Copied'
    BY <1>1, <2>2, <2>6 DEF SkillsInv, ManifestReadable, RecordedIsOnDisk, SkillsCurrent,
         Copied
  <2>8. Sorted' /\ NoLeftoverSkill'
    BY <1>1, <2>2, <2>3 DEF SkillsInv, Sorted, NoLeftoverSkill
  <2>9. Removed'
    <3> SUFFICES ASSUME ~cut
                 PROVE  /\ disk' = sync'.mem /\ \A g \in Skills : disk'[g] <= newest
                        /\ \A g \in Skills : package[g] = 0 /\ disk'[g] # 0 => g \in sync'.todo
      BY <1>1, <2>2 DEF Removed
    <3>1. /\ disk = sync.mem /\ \A g \in Skills : disk[g] <= newest
          /\ \A g \in Skills : package[g] = 0 /\ disk[g] # 0 => g \in sync.todo
      BY <1>1 DEF SkillsInv, Removed
    <3>2. \A g \in Skills : disk'[g] = sync'.mem[g]
      BY <2>3, <2>4, <3>1
    <3>3. disk' = sync'.mem
      BY <2>3, <2>4, <3>2
    <3>4. \A g \in Skills : disk'[g] <= newest
      BY <1>2, <2>3, <3>1
    <3>5. \A g \in Skills : package[g] = 0 /\ disk'[g] # 0 => g \in sync'.todo
      BY <2>2, <2>3, <3>1
    <3> QED
      BY <3>3, <3>4, <3>5
  <2> QED
    BY <2>5, <2>7, <2>8, <2>9 DEF SkillsInv
<1>4. ASSUME sync.todo = {}, disk' = disk, sync' = [sync EXCEPT !.at = "manifest"]
      PROVE  SkillsInv'
  <2>1. /\ sync'.at = "manifest" /\ sync'.mem = sync.mem /\ sync'.todo = {}
        /\ sync' = [at |-> sync'.at, mem |-> sync'.mem, todo |-> sync'.todo]
    BY <1>1, <1>4 DEF SkillsInv, SkillTypes
  <2>2. SkillTypes'
    BY <1>1, <1>4, <2>1 DEF SkillsInv, SkillTypes
  <2>3. ManifestReadable' /\ RecordedIsOnDisk' /\ SkillsCurrent' /\ NoLeftoverSkill'
    BY <1>1, <1>4 DEF SkillsInv, ManifestReadable, RecordedIsOnDisk, SkillsCurrent,
         NoLeftoverSkill
  <2>4. Copied' /\ Sorted'
    BY <1>1, <1>4, <2>1 DEF SkillsInv, Copied, Sorted
  <2>5. Removed'
    BY <1>1, <1>4, <2>1 DEF SkillsInv, Removed
  <2> QED
    BY <2>2, <2>3, <2>4, <2>5 DEF SkillsInv
<1> QED
  BY <1>3, <1>4 DEF SyncDelete

\* The manifest is written last.
LEMMA SyncEndKeeps ==
  ASSUME SkillsInv, SyncEnd
  PROVE  SkillsInv'
<1>1. /\ sync.at = "manifest" /\ manifest' = sync.mem /\ sync' = NoSync /\ fresh' = TRUE
      /\ UNCHANGED <<package, newest, disk, cut>>
  BY DEF SyncEnd
<1>2. newest \in Nat /\ Broken \in Nat /\ newest < Broken
  BY NewestIsWhole DEF SkillsInv
<1>3. SkillTypes'
  BY <1>1, <1>2 DEF SkillsInv, SkillTypes, NoSync, Nothing
<1>4. ManifestReadable'
  BY <1>1, <1>2 DEF SkillsInv, SkillTypes, ManifestReadable
<1>5. RecordedIsOnDisk' /\ SkillsCurrent'
  BY <1>1 DEF SkillsInv, RecordedIsOnDisk, SkillsCurrent, Copied
<1>6. Copied' /\ Sorted'
  BY <1>1 DEF Copied, Sorted, NoSync
<1>7. Removed' /\ NoLeftoverSkill'
  BY <1>1 DEF SkillsInv, Removed, NoLeftoverSkill, NoSync
<1> QED
  BY <1>3, <1>4, <1>5, <1>6, <1>7 DEF SkillsInv

\* A kill between two files or within one, and within the manifest.
LEMMA KillSyncKeeps ==
  ASSUME SkillsInv, KillSync
  PROVE  SkillsInv'
<1>1. /\ sync.at # "idle" /\ sync' = NoSync /\ cut' = TRUE /\ fresh' = FALSE
      /\ UNCHANGED <<package, newest>>
  BY DEF KillSync
<1>2. newest \in Nat /\ Broken \in Nat /\ newest < Broken
  BY NewestIsWhole DEF SkillsInv
<1>3. Copied' /\ Sorted' /\ Removed' /\ SkillsCurrent' /\ NoLeftoverSkill'
  BY <1>1 DEF Copied, Sorted, Removed, SkillsCurrent, NoLeftoverSkill, NoSync
<1>4. ASSUME disk' \in [Skills -> 0..Broken], manifest' \in [Skills -> 0..Broken]
      PROVE  SkillTypes'
  <2>1. Nothing \in [Skills -> 0..newest]
    BY <1>2 DEF Nothing
  <2>2. sync' = [at |-> "idle", mem |-> Nothing, todo |-> {}]
    BY <1>1 DEF NoSync
  <2>3. newest' = newest /\ package' = package /\ Broken' = Broken
    BY <1>1 DEF Broken
  <2>4. sync'.at = "idle" /\ sync'.mem = Nothing /\ sync'.todo = {}
    BY <2>2
  <2>5. sync' = [at |-> sync'.at, mem |-> sync'.mem, todo |-> sync'.todo]
    BY <2>2, <2>4
  <2>6. sync'.mem \in [Skills -> 0..newest] /\ sync'.todo \subseteq Skills
    BY <2>1, <2>4
  <2>7. newest \in 1..MaxContent /\ package \in [Skills -> 0..newest]
    BY DEF SkillsInv, SkillTypes
  <2> QED
    BY <1>1, <1>4, <2>3, <2>4, <2>5, <2>6, <2>7 DEF SkillTypes
<1>5. CASE UNCHANGED <<disk, manifest>>
  BY <1>1, <1>3, <1>4, <1>5 DEF SkillsInv, SkillTypes, ManifestReadable, RecordedIsOnDisk
<1>6. ASSUME NEW f \in sync.todo, sync.at = "copy", sync.mem[f] # package[f],
             disk' = [disk EXCEPT ![f] = Broken], manifest' = manifest
      PROVE  SkillsInv'
  <2>1. f \in Skills /\ package[f] \in 0..newest
    BY DEF SkillsInv, SkillTypes
  <2>2. disk' \in [Skills -> 0..Broken] /\ \A g \in Skills : g # f => disk'[g] = disk[g]
    BY <1>2, <1>6, <2>1 DEF SkillsInv, SkillTypes
  <2>3. manifest[f] # package[f]
    BY <1>2, <1>6, <2>1 DEF SkillsInv, Copied
  <2>4. RecordedIsOnDisk'
    BY <1>1, <1>6, <2>2, <2>3 DEF SkillsInv, RecordedIsOnDisk
  <2>5. ManifestReadable' /\ manifest' \in [Skills -> 0..Broken]
    BY <1>1, <1>6 DEF SkillsInv, SkillTypes, ManifestReadable
  <2> QED
    BY <1>3, <1>4, <2>2, <2>4, <2>5 DEF SkillsInv
<1>7. CASE manifest' = [f \in Skills |-> Broken] /\ disk' = disk
  <2>1. manifest' \in [Skills -> 0..Broken] /\ \A f \in Skills : manifest'[f] = Broken
    BY <1>2, <1>7
  <2>2. \A f \in Skills : package[f] # Broken
    BY <1>2 DEF SkillsInv, SkillTypes
  <2>3. ManifestReadable' /\ RecordedIsOnDisk'
    BY <1>1, <1>7, <2>1, <2>2 DEF ManifestReadable, RecordedIsOnDisk, Broken
  <2>4. disk' \in [Skills -> 0..Broken]
    BY <1>7 DEF SkillsInv, SkillTypes
  <2> QED
    BY <1>3, <1>4, <2>1, <2>3, <2>4 DEF SkillsInv
<1> QED
  BY <1>5, <1>6, <1>7 DEF KillSync

\* Every step of the hooks and of the skills keeps the invariant.
LEMMA SkillsStepInv == SkillsInv /\ [HooksNext \/ SkillsNext]_agentVars => SkillsInv'
<1> SUFFICES ASSUME SkillsInv, [HooksNext \/ SkillsNext]_agentVars PROVE SkillsInv'
  OBVIOUS
<1>1. ASSUME UNCHANGED skillVars PROVE SkillsInv'
  BY <1>1 DEF skillVars, SkillsInv, SkillTypes, ManifestReadable, RecordedIsOnDisk, Copied,
       Removed, Sorted, SkillsCurrent, NoLeftoverSkill
<1>2. CASE HooksNext \/ UNCHANGED agentVars
  BY <1>1, <1>2 DEF HooksNext, StartHooks, RunInstallHooks, KillHooks, EditHook, agentVars
<1>3. CASE SkillsNext
  BY <1>3, PublishKeeps, SyncStartKeeps, SyncCopyKeeps, SyncDeleteKeeps, SyncEndKeeps,
     KillSyncKeeps DEF SkillsNext
<1> QED
  BY <1>2, <1>3

\* For any number of skills and versions of the package, and kills anywhere (syncSkills
\* of skills.ts): after a sync that completed every skill of the package has its present
\* content, and none that left it is still there unless some sync was killed.
THEOREM SkillsFollowThePackage == AgentSpec => [](SkillsCurrent /\ NoLeftoverSkill)
<1>1. SkillsInv => SkillsCurrent /\ NoLeftoverSkill
  BY DEF SkillsInv
<1> QED
  BY <1>1, SkillsInitInv, SkillsStepInv, PTL DEF AgentSpec

=============================================================================
