------------------------------ MODULE MCProcess -----------------------------
(***************************************************************************)
(* Three embedded harnesses of any mode on two addresses and one cassette  *)
(* path; one process with any launch; two processes that record or replay, *)
(* one of them perhaps killed.                                             *)
(***************************************************************************)
EXTENDS Process

CONSTANTS a1, a2

Unset == [k \in {} |-> "unset"]
One(key, values) == {Unset} \cup {[k \in {key} |-> v] : v \in values}

InOwn(command, layer) ==
  [c \in DOMAIN Modes |-> IF c = command THEN layer ELSE Unset]

(* The other commands' namespaces say something else. *)
Elsewhere(command, layer) ==
  [c \in DOMAIN Modes |-> IF c = command THEN Unset ELSE layer]

Quiet == [disable |-> "unset", locale |-> "unset", fallback |-> "unset"]

Launch(command, flags, env, file) ==
  [kind |-> "process", command |-> command, flags |-> flags, env |-> env,
   file |-> file, broken |-> FALSE, early |-> Quiet]

Upstream == [k \in {"upstream"} |-> "openrouter"]
With(command, layer) == IF command = "record" THEN layer @@ Upstream ELSE layer

(* One setting varied in all its sources at a time. *)
Layered(command) ==
  LET varied(flags, layers) ==
        {Launch(command, f, InOwn(command, e), InOwn(command, With(command, g))) :
           f \in flags, e \in layers, g \in layers}
      locales == {"en-GB", "en-US", "not_a_locale"}
  IN  varied(One("listen", {a1, a2}), One("listen", {a1, a2}))
        \cup varied(One("cassette_name", {"default", "../up"}), One("cassette_name", {"default", ""}))
        \cup varied(One("locale", locales), One("localization.locale", locales))
        \cup varied(One("fallback_locale", locales),
                    One("localization.fallback_locale", locales))
        \cup varied({Unset}, One("locale", {"not_a_locale"}))

Plain(command) == Launch(command, Unset, InOwn(command, Unset), InOwn(command, With(command, Unset)))

(* The upstream in no source, in one, in both, or for other commands only. *)
Upstreams ==
  LET layers == One("upstream", {"openrouter", "mirror"})
  IN  {Launch("record", Unset, InOwn("record", e), InOwn("record", f)) : e, f \in layers}
        \cup {Launch("record", Unset, Elsewhere("record", Upstream), InOwn("record", Unset))}

Broken == {[Plain(c) EXCEPT !.broken = TRUE] : c \in DOMAIN Modes}

(* Help and a wrong command line, with any early locale. *)
Displayed ==
  {[Plain("replay") EXCEPT !.command = c, !.early = [disable |-> d, locale |-> l, fallback |-> f]] :
     c \in {"help", "wrong"}, d \in {"unset", " YES ", "false"},
     l, f \in {"unset", "en-GB", "not_a_locale"}}

AnyLaunch == UNION {Layered(c) : c \in DOMAIN Modes} \cup Upstreams \cup Broken \cup Displayed

Missing == [kind |-> "absent"]

EmbeddedConfigs ==
  {[kind |-> "embedded", config |-> c] :
     c \in {c \in Config({a1, a2}) : ~c.valid => c.mode = "Verify"}}

MCSessions ==
  [Harnesses -> EmbeddedConfigs]
    \cup {[h \in Harnesses |-> IF h = p THEN l ELSE Missing] : p \in Harnesses, l \in AnyLaunch}
    \cup {s \in [Harnesses -> {Plain("record"), Plain("replay"), Missing}] :
            Cardinality({h \in Harnesses : s[h] = Missing}) = 1}

HarnessSymmetry == Permutations(Harnesses) \cup Permutations(Interactions)
=============================================================================
