--------------------------- MODULE ToolSelection ---------------------------
(***************************************************************************)
(* Which tools and capabilities a bot gets: the settings page of a          *)
(* deployment (cockpit/routes/deployments/settings.py), the argv and the    *)
(* environment that a start passes on (cockpit/deployments.py and           *)
(* deployment_env.py), and what the bot makes of them (templates/           *)
(* resolver.py, cli/bot_runtime.py).                                        *)
(*                                                                          *)
(* A form is rendered in one request and posted in a later one, and between *)
(* the two, and between the spawn and the resolution in the bot's process,  *)
(* an administrator changes entitlements from the command line and          *)
(* connections come and go.  A connection stands for the variables that are *)
(* injected from it, the tool "calcom" for the five tools it registers.     *)
(* Scheduled tasks are enabled (tasks_enabled).                             *)
(***************************************************************************)
EXTENDS Naturals, Sequences

CONSTANTS
    Tool,            \* names of tools
    Alphabetical,    \* the same, as the sequence that sorted() yields
    Known,           \* KNOWN_TOOL_NAMES
    Default,         \* the tools of get_tools, DEFAULT_TOOL_NAMES
    NonDisableable,  \* NON_DISABLEABLE_DEFAULTS
    TaskTool,        \* the tools of build_task_tools
    NoteTool,        \* the tools of register_conversation_tools
    Template,        \* templates: records of their required, optional and bot_tools
    Service,         \* the services that have variables in TOOL_ENV_MAP
    ServiceOf,       \* TOOL_ENV_MAP: the services a tool needs, as a function on Tool
    Required,        \* the bot type's required_connections
    Supported,       \* its supported_connections
    CockpitEnv,      \* the services whose variables the cockpit itself runs with
    Flag,            \* the bot type's feature_flags
    MaxForms,        \* bound on the settings pages rendered
    MaxStarts        \* bound on the starts

ASSUME ToolSelectionAssumption ==
    /\ {Alphabetical[i] : i \in DOMAIN Alphabetical} = Tool
    /\ NonDisableable \subseteq Default /\ Default \subseteq Known /\ Known \subseteq Tool
    /\ Template \subseteq
           [required : SUBSET Tool, optional : SUBSET Tool, bot_tools : SUBSET Tool]
    /\ ServiceOf \in [Tool -> SUBSET Service]
    /\ TaskTool \cup NoteTool \subseteq Tool
    /\ \A t \in Default \cup TaskTool \cup NoteTool : ServiceOf[t] = {}
    /\ \A tmpl \in Template : \A t \in tmpl.required :
           t \in Default \cup TaskTool \cup NoteTool \/ ServiceOf[t] # {}
    /\ Required \subseteq Service /\ Supported \subseteq Service
    /\ MaxForms \in Nat /\ MaxStarts \in Nat

VARIABLES
    row,       \* the deployment's row
    entitled,  \* the feature flags that the operator is entitled to
    conn,      \* the status of the operator's connection of each service
    form,      \* the settings page in the operator's browser, as a set of at most one
    file,      \* the flags in the bot's config file, and the entitlement they were saved under
    spawn,     \* the argv and environment of a process that has not resolved its tools yet
    bot,       \* the bot that is up, as a set of at most one
    forms, starts  \* how many pages were rendered and processes started

toolVars == <<row, entitled, conn, form, file, spawn, bot, forms, starts>>

-----------------------------------------------------------------------------
(* templates/resolver.py                                                    *)

\* is_tool_configured in an environment with the variables of the services in env
IsToolConfigured(t, env) == ServiceOf[t] \subseteq env

CannotDisable(tmpl) == NonDisableable \cup tmpl.required

\* build_rejected_disable
Rejected(tmpl, disable) == disable \cap CannotDisable(tmpl)

\* build_tool_set without operator_enable, which the settings page leaves empty
ToolSet(tmpl, disable, env) ==
    (Default \cup tmpl.required \cup tmpl.bot_tools
        \cup {t \in tmpl.optional : IsToolConfigured(t, env)})
    \ (disable \ CannotDisable(tmpl))

\* Faulty variant: a required tool without its variables is left out silently
NoneMissing(tmpl, env) == {}

\* build_missing_required
Missing(tmpl, env) == {t \in tmpl.required : ~ IsToolConfigured(t, env)}

-----------------------------------------------------------------------------
(* The settings page.                                                       *)

OptionalServices == Supported \ Required

\* template_tool_is_on: looked up in the environment of the cockpit
TemplateToolIsOn(t) == t \notin row.disable /\ IsToolConfigured(t, CockpitEnv)

\* GET settings: what is checked, and which boxes the operator can check
OpenSettings ==
    /\ forms < MaxForms
    /\ form' = {[tools |-> row.template.optional \cap Known,
                 on |-> {t \in row.template.optional \cap Known : TemplateToolIsOn(t)},
                 services |-> {s \in OptionalServices : conn[s] # "none"},
                 flags |-> entitled]}
    /\ forms' = forms + 1
    /\ UNCHANGED <<row, entitled, conn, file, spawn, bot, starts>>

\* Faulty variant: the submitted flags are taken as they are
FlagsAsSubmitted(submitted) == submitted

\* build_feature_flags_for_post
FlagsForPost(submitted) == submitted \cap entitled

\* build_tool_overrides: the optional tools that were not checked
DisableOf(checked) == row.template.optional \ checked

\* POST settings: the operator leaves the boxes as they were or sets at most one of each kind
\* otherwise; DeploymentsService.edit writes the config file, or logs that it could not
SaveSettings ==
    \E f \in form, flags \in SUBSET Flag, toggles \in SUBSET OptionalServices,
       checked \in SUBSET Tool :
        /\ flags \subseteq f.flags /\ toggles \subseteq f.services /\ checked \subseteq f.tools
        /\ \E t \in Tool : checked \ {t} = f.on \ {t}
        /\ form' = {}
        /\ IF Rejected(row.template, DisableOf(checked)) # {}
           THEN UNCHANGED <<row, file>>
           ELSE /\ row' = [row EXCEPT !.flags = FlagsForPost(flags), !.licence = entitled,
                                      !.toggles = toggles, !.disable = DisableOf(checked)]
                /\ \/ file' = [flags |-> row'.flags, licence |-> entitled]
                   \/ UNCHANGED file
        /\ UNCHANGED <<entitled, conn, spawn, bot, forms, starts>>

\* `kai cockpit user flags`
ToggleEntitlement ==
    /\ \E fl \in Flag :
           entitled' = IF fl \in entitled THEN entitled \ {fl} ELSE entitled \cup {fl}
    /\ UNCHANGED <<row, conn, form, file, spawn, bot, forms, starts>>

\* the connection pages: a connection is saved, probed or deleted
ChangeConnection ==
    /\ \E s \in Supported \cup Required, status \in {"none", "saved", "connected"} :
           conn' = [conn EXCEPT ![s] = status]
    /\ UNCHANGED <<row, entitled, form, file, spawn, bot, forms, starts>>

-----------------------------------------------------------------------------
(* Starting a bot.                                                          *)

\* is_connected
Connected(s) == conn[s] = "connected"

\* the services of which build_spawn_env injects the variables
RequiredEnv == {s \in Required : Connected(s)}

\* inject_optional_tools_env adds those that are switched on, connected or not
OptionalEnv == {s \in OptionalServices : s \in row.toggles /\ conn[s] # "none"}

\* build_spawn_argv repeats --disable-tools for each tool
Options(disable) == SelectSeq(Alphabetical, LAMBDA t : t \in disable)

\* the command declares an option with one value: the last one counts
Parsed(options) == IF options = <<>> THEN {} ELSE {options[Len(options)]}

\* DeploymentsService.start up to the spawn, which is not reached if the configuration of a
\* required connection is unreadable; an optional one that is unreadable is skipped
Start ==
    /\ spawn = {} /\ bot = {} /\ starts < MaxStarts
    /\ \A s \in Required : Connected(s)
    /\ file' = [flags |-> row.flags, licence |-> row.licence]
    /\ \/ spawn' = {}
       \/ \E readable \in SUBSET OptionalEnv :
            spawn' = {[template |-> row.template, option |-> Parsed(Options(row.disable)),
                       env |-> CockpitEnv \cup RequiredEnv \cup readable,
                       disabled |-> row.disable,
                       granted |-> row.toggles \cup Required]}
    /\ starts' = starts + 1
    /\ UNCHANGED <<row, entitled, conn, form, bot, forms>>

\* load_startup_template exits: the tools do not resolve
StartFails ==
    /\ \E s \in spawn : \/ Missing(s.template, s.env) # {}
                        \/ Rejected(s.template, s.option) # {}
    /\ spawn' = {}
    /\ UNCHANGED <<row, entitled, conn, form, file, bot, forms, starts>>

\* the tools that the agent ends up with, but for those whose registration raises: its
\* constructor takes every default tool, the bot and run_instance the others
Registered(final, env, failing) ==
    Default
    \cup {t \in final \ failing : ServiceOf[t] # {} /\ ServiceOf[t] \subseteq env}
    \cup (IF final \cap TaskTool # {} THEN TaskTool ELSE {})
    \cup (IF final \cap NoteTool # {} THEN NoteTool ELSE {})

\* configure, which reads the config file, and _register_optional_tools, which logs a
\* registration that raises and goes on without it
BotComesUp ==
    /\ \E s \in spawn, failing \in SUBSET {t \in Tool : ServiceOf[t] # {}} :
        /\ Missing(s.template, s.env) = {}
        /\ Rejected(s.template, s.option) = {}
        /\ bot' = {[tools |-> Registered(ToolSet(s.template, s.option, s.env), s.env, failing),
                    flags |-> file.flags, licence |-> file.licence,
                    required |-> s.template.required, failing |-> failing,
                    disabled |-> s.disabled, granted |-> s.granted]}
    /\ spawn' = {}
    /\ UNCHANGED <<row, entitled, conn, form, file, forms, starts>>

\* the bot stops, or its process dies
BotStops ==
    /\ bot # {}
    /\ bot' = {}
    /\ UNCHANGED <<row, entitled, conn, form, file, spawn, forms, starts>>

\* DeploymentsService.create: every flag is off and no tool is toggled
ToolInit ==
    /\ \E tmpl \in Template :
           row = [template |-> tmpl, flags |-> {}, licence |-> {}, toggles |-> {}, disable |-> {}]
    /\ entitled \in SUBSET Flag
    /\ conn = [s \in Service |-> IF s \in Required THEN "connected" ELSE "none"]
    /\ form = {} /\ spawn = {} /\ bot = {}
    /\ file = [flags |-> {}, licence |-> {}]
    /\ forms = 0 /\ starts = 0

ToolNext ==
    \/ OpenSettings \/ SaveSettings \/ ToggleEntitlement \/ ChangeConnection
    \/ Start \/ StartFails \/ BotComesUp \/ BotStops

ToolSpec == ToolInit /\ [][ToolNext]_toolVars

-----------------------------------------------------------------------------
(* Properties.                                                              *)

\* Whatever the operator unchecked, on whichever page of his, and whatever became of his
\* connections since: a bot that is up has the safety tools and the tools that its template
\* requires, but for one whose registration raised, which the log alone tells.
BotsKeepTheirTools ==
    \A b \in bot : NonDisableable \cup (b.required \ b.failing) \subseteq b.tools

\* A bot reaches a service only if the cockpit runs with it, its type requires it or the
\* operator had switched it on, and it has a capability only if he was entitled to it when
\* the settings that the bot reads were saved, however old the page was that he saved.
BotsUseOnlyWhatWasGranted ==
    \A b \in bot :
        /\ \A t \in b.tools : ServiceOf[t] \subseteq CockpitEnv \cup b.granted
        /\ b.flags \subseteq b.licence

\* What build_template_tools says of its checkboxes: an optional tool that the operator
\* unchecked is disabled for the deployment.
UncheckedToolsAreOff == \A b \in bot : b.disabled \cap b.tools = {}

=============================================================================
