------------------------------ MODULE ConsoleMC ------------------------------
(***************************************************************************)
(* The four parts behind the web console - LogStream, LoginWizard,         *)
(* SettingsCenter and WebAccess - share no state: one instance, in which   *)
(* part says whom a behaviour is about and the others stay as they began.  *)
(***************************************************************************)
EXTENDS LogStream, LoginWizard, SettingsCenter, WebAccess

VARIABLE part

consoleVars == <<part, logVars, wizardVars, settingsVars, webVars>>

Levels == <<"info", "error", "info", "error", "info">>
SmallFilters == {{}, {"error"}}
SmallFields == {"quiet", "deadline"}
InOrder(x) == x["quiet"] <= x["deadline"]

(* One stored row for the other parts; any for the settings.               *)
ConsoleInit ==
  /\ part \in {"log", "wizard", "settings", "web"}
  /\ LogInit /\ WizardInit /\ SettingsInit /\ WebInit
  /\ part # "settings" => DOMAIN row = {}

ConsoleNext ==
  \/ part = "log" /\ LogNext /\ UNCHANGED <<part, wizardVars, settingsVars, webVars>>
  \/ part = "wizard" /\ WizardNext /\ UNCHANGED <<part, logVars, settingsVars, webVars>>
  \/ part = "settings" /\ SettingsNext /\ UNCHANGED <<part, logVars, wizardVars, webVars>>
  \/ part = "web" /\ WebNext /\ UNCHANGED <<part, logVars, wizardVars, settingsVars>>

ConsoleSpec == ConsoleInit /\ [][ConsoleNext]_consoleVars
=============================================================================
