----------------------------- MODULE CommandLine ----------------------------
(***************************************************************************)
(* What a process makes of its command line, its environment and its       *)
(* configuration files before it starts a harness: the localizer its help  *)
(* and parse errors are written with, the settings of the harness, and the *)
(* languages its other errors are written in.                              *)
(*                                                                         *)
(* A layer is a function from the settings it sets to their values.  Files *)
(* and environment have one for every command, under cmds.<command>; how   *)
(* the layers are read and merged is the business of ortho_config.  The    *)
(* cassette directory is the same everywhere.                              *)
(***************************************************************************)
EXTENDS Sequences, TLC

CONSTANTS
  DefaultListen,   \* 127.0.0.1:8787
  Languages,       \* the texts that are language identifiers
  Catalogues,      \* the languages the binary embeds a catalogue for
  Truthy           \* the spellings of a switch that is on

ASSUME LanguagesAssumption == "en-US" \in Languages
ASSUME CataloguesAssumption == Catalogues \subseteq Languages

Modes == [record |-> "Record", replay |-> "Replay", verify |-> "Verify"]

NoUpstream == "none"

(* The localization settings are nested everywhere but on the command line.*)
Nested == [locale |-> "localization.locale",
           fallback_locale |-> "localization.fallback_locale"]

-----------------------------------------------------------------------------
(* The early locale is the first valid one the environment names; a switch *)
(* selects clap's own texts instead.                                       *)
EarlyLocalePlan(early) ==
  IF early.locale \in Languages THEN early.locale
  ELSE IF early.fallback \in Languages THEN early.fallback
  ELSE "en-US"

SelectCliLocalizer(early) ==
  IF early.disable \in Truthy THEN "noop" ELSE EarlyLocalePlan(early)

-----------------------------------------------------------------------------
LoadAndMergeSubcommand(launch) ==
  LET flags == launch.flags
      env   == launch.env[launch.command]
      file  == launch.file[launch.command]
  IN  [key \in DOMAIN flags \cup DOMAIN env \cup DOMAIN file |->
         IF key \in DOMAIN flags THEN flags[key]
         ELSE IF key \in DOMAIN env THEN env[key] ELSE file[key]]

Value(layer, key, default) == IF key \in DOMAIN layer THEN layer[key] ELSE default
Supplied(layer, key) == IF key \in DOMAIN layer THEN {layer[key]} ELSE {}

(* Mutant: the environment or a file wins over the flag. *)
SelectMergedOverride(field, cli, merged) ==
  IF Nested[field] \in DOMAIN merged THEN Supplied(merged, Nested[field])
  ELSE Supplied(cli, field)

(* The flag, else the nested setting; one or no value. *)
SelectLocalizationOverride(field, cli, merged) ==
  IF field \in DOMAIN cli THEN Supplied(cli, field)
  ELSE Supplied(merged, Nested[field])

FallbackOr(overrides) ==
  IF overrides = {} THEN "en-US" ELSE CHOOSE l \in overrides : TRUE

BuildConfig(launch) ==
  LET merged   == LoadAndMergeSubcommand(launch)
      locale   == SelectLocalizationOverride("locale", launch.flags, merged)
      fallback == SelectLocalizationOverride("fallback_locale", launch.flags, merged)
  IN  [mode            |-> Modes[launch.command],
       listen          |-> Value(merged, "listen", DefaultListen),
       cassette_name   |-> Value(merged, "cassette_name", "default"),
       upstream        |-> IF launch.command = "record"
                           THEN Value(merged, "upstream", NoUpstream) ELSE NoUpstream,
       locale          |-> locale,
       fallback_locale |-> FallbackOr(fallback)]

(* Checked while the configuration is built. *)
ValidLocales(settings) ==
  settings.locale \cup {settings.fallback_locale} \subseteq Languages

ValidateConfig(settings) ==
  /\ settings.cassette_name \notin {"", "/absolute", "../up"}
  /\ settings.mode = "Record" => settings.upstream # NoUpstream

-----------------------------------------------------------------------------
(* The languages of error messages: the requested one, if any, then the    *)
(* fallback.  Both are parsed again.                                       *)
PlanLocaleSelection(settings) ==
  IF settings.locale = {} THEN <<settings.fallback_locale>>
  ELSE <<CHOOSE l \in settings.locale : TRUE, settings.fallback_locale>>

PlanParses(plan) == \A k \in DOMAIN plan : plan[k] \in Languages

(* i18n_embed fails for want of the fallback's catalogue; it may find one  *)
(* of a related language.                                                  *)
MayFailToLoad(plan) == plan[Len(plan)] \notin Catalogues
=============================================================================
