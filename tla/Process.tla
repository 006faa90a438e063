------------------------------- MODULE Process ------------------------------
(***************************************************************************)
(* The binary around a harness: a process is launched, reads its command   *)
(* line, environment and files, starts the harness they ask for, shuts it  *)
(* down, and exits with a status that a script goes by.  A harness can     *)
(* also be embedded in another program that configures and starts it.      *)
(***************************************************************************)
EXTENDS HarnessLifecycle, CommandLine

CONSTANTS
  Sessions,    \* what each harness of a session is: a record whose kind is
               \* "process", "embedded" or "absent"
  Running, Nothing

(* A harness of a session is one of the three; the nested forms of the     *)
(* settings are no flags; and Nothing is no configuration.                 *)
ASSUME SessionsAssumption ==
  \A session \in Sessions : \A h \in Harnesses :
    /\ session[h].kind \in {"process", "embedded", "absent"}
    /\ session[h].kind = "process" =>
         /\ \A field \in DOMAIN Nested : Nested[field] \notin DOMAIN session[h].flags
         /\ session[h].command \in DOMAIN Modes => BuildConfig(session[h]) # Nothing

VARIABLES
  launch,    \* how each harness comes to be
  stage,     \* "embedded", "absent", "launched", "parsing", "loading",
             \* "running", "exited"
  settings,  \* the HarnessConfig the process has built
  output,    \* what it has written: the stream, and the localizer used
  exit       \* its exit status

processVars == <<launch, stage, settings, output, exit>>
allVars == <<vars, processVars>>

ModeOf(command) == IF command \in DOMAIN Modes THEN Modes[command] ELSE "Verify"

(* Of a process, no more than the command is known before it has parsed.   *)
FirstConfig(l) ==
  CASE l.kind = "embedded" -> l.config
    [] l.kind = "process"  -> [mode |-> ModeOf(l.command), valid |-> FALSE,
                               addr |-> DefaultListen]
    [] OTHER -> [mode |-> "Verify", valid |-> FALSE, addr |-> DefaultListen]

ProcessInit ==
  /\ LifecycleInit
  /\ launch \in Sessions
  /\ config = [h \in Harnesses |-> FirstConfig(launch[h])]
  /\ stage = [h \in Harnesses |->
       IF launch[h].kind = "process" THEN "launched" ELSE launch[h].kind]
  /\ settings = [h \in Harnesses |-> Nothing]
  /\ output = [h \in Harnesses |-> Nothing]
  /\ exit = [h \in Harnesses |-> Running]

Reaches(h, to) == stage' = [stage EXCEPT ![h] = to] /\ UNCHANGED exit

Exits(h, status) ==
  /\ stage' = [stage EXCEPT ![h] = "exited"]
  /\ exit' = [exit EXCEPT ![h] = status]

-----------------------------------------------------------------------------
(* Recording processes of one cassette are run one after the other.        *)
InitializeTracing(h) ==
  /\ stage[h] = "launched"
  /\ Records(h) =>
       \A g \in Harnesses : Records(g) => stage[g] \in {"absent", "launched", "exited"}
  /\ Reaches(h, "parsing") \/ Exits(h, 1)
  /\ UNCHANGED <<vars, launch, settings, output>>

(* Writing may fail as well; the status then is that of any other error.   *)
Writes(h, stream, status) ==
  \/ /\ output' = [output EXCEPT ![h] =
           [stream |-> stream, localizer |-> SelectCliLocalizer(launch[h].early)]]
     /\ Exits(h, status)
  \/ Exits(h, 1) /\ UNCHANGED output

DisplayCliOutput(h) ==
  /\ stage[h] = "parsing" /\ launch[h].command = "help"
  /\ Writes(h, "stdout", 0)
  /\ UNCHANGED <<vars, launch, settings>>

DisplayCliParseError(h) ==
  /\ stage[h] = "parsing" /\ launch[h].command = "wrong"
  /\ Writes(h, "stderr", 2)
  /\ UNCHANGED <<vars, launch, settings>>

(* A file that cannot be read or decoded fails the merge; a locale that is *)
(* no language identifier fails the configuration.                         *)
LoadConfigFails(h) ==
  /\ stage[h] = "parsing" /\ launch[h].command \in DOMAIN Modes
  /\ launch[h].broken \/ ~ValidLocales(BuildConfig(launch[h]))
  /\ Exits(h, 1)
  /\ UNCHANGED <<vars, launch, settings, output>>

LoadConfig(h) ==
  LET built == BuildConfig(launch[h]) IN
  /\ stage[h] = "parsing" /\ launch[h].command \in DOMAIN Modes
  /\ ~launch[h].broken /\ ValidLocales(built)
  /\ settings' = [settings EXCEPT ![h] = built]
  /\ config' = [config EXCEPT ![h] = [mode  |-> built.mode,
                                      valid |-> ValidateConfig(built),
                                      addr  |-> built.listen]]
  /\ Reaches(h, "loading")
  /\ UNCHANGED <<phase, memory, flushVars, clientVars, diskVars, historyVars,
                 launch, output>>

(* The catalogue of the error messages, then the runtime of the harness.   *)
BuildLanguageLoader(h) ==
  LET plan == PlanLocaleSelection(settings[h]) IN
  /\ stage[h] = "loading"
  /\ \/ PlanParses(plan) /\ Reaches(h, "running")
     \/ (~PlanParses(plan) \/ MayFailToLoad(plan)) /\ Exits(h, 1)
  /\ UNCHANGED <<vars, launch, settings, output>>

BuildRuntimeFails(h) ==
  /\ stage[h] = "loading"
  /\ Exits(h, 1)
  /\ UNCHANGED <<vars, launch, settings, output>>

-----------------------------------------------------------------------------
(* start_harness, serving and shutdown are the harness's own steps.  The   *)
(* binary shuts its harness down as soon as it is started: what it records *)
(* it records while it stops.                                              *)
RunHarness(h) ==
  /\ \/ stage[h] = "embedded"
     \/ stage[h] = "running" /\ (phase[h] = "serving" => Shutdown(h))
  /\ HarnessStep(h)
  /\ UNCHANGED processVars

(* Mutant: the process leaves without its blocking tasks. *)
HarnessReturnsAtOnce(h) ==
  /\ stage[h] = "running"
  /\ \/ phase[h] = "stopped" /\ Exits(h, 0)
     \/ phase[h] \in {"failed", "stopped"} /\ Exits(h, 1)
  /\ UNCHANGED <<vars, launch, settings, output>>

(* Dropping the runtime waits for the blocking pool: an append that still  *)
(* runs, or waits for the store.  The shutdown itself may return an error. *)
HarnessReturns(h) ==
  /\ stage[h] = "running" /\ io[h] = "idle" /\ orphans[h] = {}
  /\ \/ phase[h] = "stopped" /\ Exits(h, 0)
     \/ phase[h] \in {"failed", "stopped"} /\ Exits(h, 1)
  /\ UNCHANGED <<vars, launch, settings, output>>

(* The process handles no signals: it can be ended at any point, in the    *)
(* middle of a write too, and leaves its temporary file behind.  A shell   *)
(* reports 128 and the number of the signal.                               *)
Killed(h) ==
  /\ stage[h] \in {"parsing", "loading", "running"}
  /\ Exits(h, 137)
  /\ phase' = [phase EXCEPT ![h] = "stopped"]
  /\ io' = [io EXCEPT ![h] = "idle"]
  /\ flushes' = [flushes EXCEPT ![h] = 0]
  /\ fd' = [fd EXCEPT ![h] = NoFile]
  /\ orphans' = [orphans EXCEPT ![h] = {}]
  /\ \/ UNCHANGED content
     \/ io[h] = "write" /\ content' = [content EXCEPT ![fd[h]] = Torn]
  /\ UNCHANGED <<config, memory, clientGone, cassetteAt, tempAt, historyVars,
                 launch, settings, output>>

ProcessNext ==
  \E h \in Harnesses :
    \/ InitializeTracing(h) \/ DisplayCliOutput(h) \/ DisplayCliParseError(h)
    \/ LoadConfigFails(h) \/ LoadConfig(h)
    \/ BuildLanguageLoader(h) \/ BuildRuntimeFails(h)
    \/ RunHarness(h) \/ HarnessReturns(h) \/ Killed(h)

ProcessSpec == ProcessInit /\ [][ProcessNext]_allVars

-----------------------------------------------------------------------------
(* The sources of a process's settings, the most explicit one first.       *)
Sources(l) == <<l.flags, l.env[l.command], l.file[l.command]>>

(* A setting of that name, or, but for a flag, its nested form.            *)
Sets(l, k, field) ==
  LET key == IF k > 1 /\ field \in DOMAIN Nested THEN Nested[field] ELSE field
  IN  Supplied(Sources(l)[k], key)

Asked(l, field) ==
  UNION {Sets(l, k, field) : k \in {k \in 1..3 : \A j \in 1..(k - 1) : Sets(l, j, field) = {}}}

AskedOr(l, field, default) == IF Asked(l, field) = {} THEN {default} ELSE Asked(l, field)

(* What a process runs is what the most explicit source asks for, setting  *)
(* by setting: flag, environment, file, default, each from the command's   *)
(* own namespace.  No process runs with a text for a locale that is no     *)
(* language identifier ("Invalid language identifiers fail startup before  *)
(* the harness begins serving", src/docs/users-guide.md:417).              *)
RunsWhatWasAsked ==
  \A h \in Harnesses : stage[h] = "running" =>
    LET l == launch[h]
        s == settings[h]
    IN  /\ config[h].addr = s.listen /\ config[h].mode = Modes[l.command]
        /\ s.listen \in AskedOr(l, "listen", DefaultListen)
        /\ s.cassette_name \in AskedOr(l, "cassette_name", "default")
        /\ s.locale = Asked(l, "locale")
        /\ s.fallback_locale \in AskedOr(l, "fallback_locale", "en-US")
        /\ s.locale \cup {s.fallback_locale} \subseteq Languages
        /\ l.command = "record" => s.upstream \in AskedOr(l, "upstream", NoUpstream)

(* A script can go by the status.  0: help was written, or a server was    *)
(* started as asked and has stopped.  2: the command line was wrong and    *)
(* stderr says so.  Whatever the status, nothing of the process goes on:   *)
(* no append is running or waiting, no address is held, and a process that *)
(* never got to its harness has left the cassette alone.                   *)
ExitStatusTellsTheTruth ==
  \A h \in Harnesses : stage[h] = "exited" =>
    /\ exit[h] = 0 =>
         \/ launch[h].command = "help" /\ output[h].stream = "stdout" /\ phase[h] = "off"
         \/ phase[h] = "stopped" /\ config[h].valid /\ config[h].mode # "Verify"
    /\ exit[h] = 2 =>
         launch[h].command = "wrong" /\ output[h].stream = "stderr" /\ phase[h] = "off"
    /\ io[h] = "idle" /\ orphans[h] = {} /\ fd[h] = NoFile /\ ~Listening(h)
    /\ settings[h] = Nothing => memory[h] = <<>> /\ phase[h] \in {"off", "stopped"}
    /\ output[h] # Nothing /\ launch[h].early.disable \notin Truthy =>
         output[h].localizer \in Languages
=============================================================================
