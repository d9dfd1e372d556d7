--------------------------- MODULE ServicesProofs ---------------------------
(***************************************************************************)
(* What holds of the parts that a bot is made of besides its turns: its     *)
(* tools and capabilities, the crawls that fill its knowledge base, the     *)
(* calendar of its recurring tasks and the layouts of its history; for all  *)
(* tools, webs, months and conversations, however many steps there are.     *)
(***************************************************************************)
EXTENDS ToolSelection, BrainIngest, Recurrence, HistoryLayout,
        SequenceTheorems, FiniteSetTheorems, WellFoundedInduction, TLAPS

-----------------------------------------------------------------------------
(* Tools: the inductive invariant.                                          *)

\* the deployment's row, with flags that its operator was entitled to when they were saved
RowInv ==
    /\ row \in [template : Template, flags : SUBSET Flag, licence : SUBSET Flag,
                toggles : SUBSET OptionalServices, disable : SUBSET Tool]
    /\ row.flags \subseteq row.licence
    /\ entitled \subseteq Flag

\* the config file holds flags of some such row
FileInv == file.flags \subseteq file.licence

\* a process has a bundled template, and variables of granted services only
SpawnInv ==
    \A s \in spawn : s.template \in Template /\ s.env \subseteq CockpitEnv \cup s.granted

ToolInv == RowInv /\ FileInv /\ SpawnInv /\ BotsKeepTheirTools /\ BotsUseOnlyWhatWasGranted

-----------------------------------------------------------------------------
(* Tools: lemmas about the operators.                                       *)

\* build_tool_set keeps what a template requires, whatever the operator disabled.
LEMMA RequiredIsInToolSet ==
    ASSUME NEW tmpl \in Template, NEW disable, NEW env
    PROVE  tmpl.required \subseteq ToolSet(tmpl, disable, env)
BY DEF ToolSet, CannotDisable

\* If no required tool misses its variables, the tools that a bot registers contain the safety
\* tools and the required ones, but for those whose registration raises.
LEMMA RequiredIsRegistered ==
    ASSUME NEW tmpl \in Template, NEW disable, NEW env, NEW failing,
           Missing(tmpl, env) = {}
    PROVE  NonDisableable \cup (tmpl.required \ failing)
               \subseteq Registered(ToolSet(tmpl, disable, env), env, failing)
<1> DEFINE final == ToolSet(tmpl, disable, env)
<1>1. NonDisableable \subseteq Registered(final, env, failing)
  BY ToolSelectionAssumption DEF Registered
<1>2. ASSUME NEW t \in tmpl.required, t \notin failing
      PROVE  t \in Registered(final, env, failing)
  <2>1. t \in final
    BY RequiredIsInToolSet
  <2>2. ServiceOf[t] \subseteq env
    BY DEF Missing, IsToolConfigured
  <2>3. t \in Default \cup TaskTool \cup NoteTool \/ ServiceOf[t] # {}
    BY ToolSelectionAssumption
  <2> HIDE DEF final
  <2>4. CASE ServiceOf[t] # {}
    BY <1>2, <2>1, <2>2, <2>4 DEF Registered
  <2>5. CASE t \in Default
    BY <2>5 DEF Registered
  <2>6. CASE t \in TaskTool
    BY <2>1, <2>6 DEF Registered
  <2>7. CASE t \in NoteTool
    BY <2>1, <2>7 DEF Registered
  <2> QED
    BY <2>3, <2>4, <2>5, <2>6, <2>7
<1> QED
  BY <1>1, <1>2

\* A registered tool needs no service, or those whose variables are set.
LEMMA RegisteredIsConfigured ==
    ASSUME NEW final, NEW env, NEW failing, NEW t \in Registered(final, env, failing)
    PROVE  ServiceOf[t] \subseteq env
BY ToolSelectionAssumption DEF Registered

-----------------------------------------------------------------------------
(* Tools: the invariant.                                                    *)

\* The invariant holds before the first form is posted.
LEMMA ToolInitInv == ToolInit => ToolInv
<1> SUFFICES ASSUME ToolInit
             PROVE  ToolInv
  OBVIOUS
<1>1. RowInv
  BY ToolSelectionAssumption DEF ToolInit, RowInv
<1> QED
  BY <1>1 DEF ToolInit, ToolInv, FileInv, SpawnInv, BotsKeepTheirTools, BotsUseOnlyWhatWasGranted

\* a form that is saved
LEMMA SaveSettingsInv == ToolInv /\ SaveSettings => ToolInv'
<1> SUFFICES ASSUME ToolInv, SaveSettings
             PROVE  ToolInv'
  OBVIOUS
<1>1. PICK f \in form, flags \in SUBSET Flag, toggles \in SUBSET OptionalServices,
           checked \in SUBSET Tool :
        /\ IF Rejected(row.template, DisableOf(checked)) # {}
           THEN UNCHANGED <<row, file>>
           ELSE /\ row' = [row EXCEPT !.flags = FlagsForPost(flags), !.licence = entitled,
                                      !.toggles = toggles, !.disable = DisableOf(checked)]
                /\ \/ file' = [flags |-> row'.flags, licence |-> entitled]
                   \/ UNCHANGED file
        /\ UNCHANGED <<entitled, conn, spawn, bot, forms, starts>>
  BY DEF SaveSettings
<1>2. SpawnInv' /\ BotsKeepTheirTools' /\ BotsUseOnlyWhatWasGranted'
  BY <1>1 DEF ToolInv, SpawnInv, BotsKeepTheirTools, BotsUseOnlyWhatWasGranted
<1>3. CASE UNCHANGED <<row, file>>
  BY <1>1, <1>2, <1>3 DEF ToolInv, RowInv, FileInv
<1>4. CASE /\ row' = [row EXCEPT !.flags = FlagsForPost(flags), !.licence = entitled,
                                 !.toggles = toggles, !.disable = DisableOf(checked)]
           /\ \/ file' = [flags |-> row'.flags, licence |-> entitled]
              \/ UNCHANGED file
  <2>1. FlagsForPost(flags) \subseteq entitled /\ FlagsForPost(flags) \in SUBSET Flag
    BY DEF FlagsForPost
  <2>2. row.template.optional \subseteq Tool
    BY ToolSelectionAssumption DEF ToolInv, RowInv
  <2>3. DisableOf(checked) \in SUBSET Tool
    BY <2>2 DEF DisableOf
  <2>4. RowInv'
    BY <1>1, <1>4, <2>1, <2>3 DEF ToolInv, RowInv, OptionalServices
  <2>5. FileInv'
    BY <1>4, <2>1, <2>4 DEF ToolInv, RowInv, FileInv
  <2> QED
    BY <1>2, <2>4, <2>5 DEF ToolInv
<1> QED
  BY <1>1, <1>3, <1>4

\* a bot that is spawned
LEMMA StartInv == ToolInv /\ Start => ToolInv'
<1> SUFFICES ASSUME ToolInv, Start
             PROVE  ToolInv'
  OBVIOUS
<1>1. RowInv' /\ FileInv' /\ BotsKeepTheirTools' /\ BotsUseOnlyWhatWasGranted'
  BY DEF ToolInv, Start, RowInv, FileInv, BotsKeepTheirTools, BotsUseOnlyWhatWasGranted
<1>2. SpawnInv'
  BY DEF ToolInv, RowInv, SpawnInv, Start, RequiredEnv, OptionalEnv
<1> QED
  BY <1>1, <1>2 DEF ToolInv

\* a bot that comes up
LEMMA BotComesUpInv == ToolInv /\ BotComesUp => ToolInv'
<1> SUFFICES ASSUME ToolInv, BotComesUp
             PROVE  ToolInv'
  OBVIOUS
<1>1. PICK s \in spawn, failing \in SUBSET {t \in Tool : ServiceOf[t] # {}} :
        /\ Missing(s.template, s.env) = {}
        /\ bot' = {[tools |-> Registered(ToolSet(s.template, s.option, s.env), s.env, failing),
                    flags |-> file.flags, licence |-> file.licence,
                    required |-> s.template.required, failing |-> failing,
                    disabled |-> s.disabled, granted |-> s.granted]}
  BY DEF BotComesUp
<1>2. RowInv' /\ FileInv' /\ SpawnInv'
  BY DEF ToolInv, BotComesUp, RowInv, FileInv, SpawnInv
<1>3. BotsKeepTheirTools'
  BY <1>1, RequiredIsRegistered DEF ToolInv, SpawnInv, BotsKeepTheirTools
<1>4. BotsUseOnlyWhatWasGranted'
  BY <1>1, RegisteredIsConfigured DEF ToolInv, FileInv, SpawnInv, BotsUseOnlyWhatWasGranted
<1> QED
  BY <1>2, <1>3, <1>4 DEF ToolInv

\* Every step keeps the invariant.
LEMMA ToolStepInv == ToolInv /\ [ToolNext]_toolVars => ToolInv'
<1> SUFFICES ASSUME ToolInv, [ToolNext]_toolVars
             PROVE  ToolInv'
  OBVIOUS
<1> USE DEF ToolInv, RowInv, FileInv, SpawnInv, BotsKeepTheirTools, BotsUseOnlyWhatWasGranted
<1>1. CASE OpenSettings
  BY <1>1 DEF OpenSettings
<1>2. CASE SaveSettings
  BY <1>2, SaveSettingsInv
<1>3. CASE ToggleEntitlement
  BY <1>3 DEF ToggleEntitlement
<1>4. CASE ChangeConnection
  BY <1>4 DEF ChangeConnection
<1>5. CASE Start
  BY <1>5, StartInv
<1>6. CASE StartFails
  BY <1>6 DEF StartFails
<1>7. CASE BotComesUp
  BY <1>7, BotComesUpInv
<1>8. CASE BotStops
  BY <1>8 DEF BotStops
<1>9. CASE UNCHANGED toolVars
  BY <1>9 DEF toolVars
<1> QED
  BY <1>1, <1>2, <1>3, <1>4, <1>5, <1>6, <1>7, <1>8, <1>9 DEF ToolNext

\* The invariant, for all behaviours.
LEMMA ToolInvariant == ToolSpec => []ToolInv
BY ToolInitInv, ToolStepInv, PTL DEF ToolSpec

-----------------------------------------------------------------------------
\* A bot that is up has the safety tools and those its template requires, but for one whose
\* registration raised: for any templates, tools and services (resolve_tools,
\* _register_optional_tools).
THEOREM BotsKeepTheirToolsAlways == ToolSpec => []BotsKeepTheirTools
<1>1. ToolInv => BotsKeepTheirTools
  BY DEF ToolInv
<1> QED
  BY <1>1, ToolInvariant, PTL

\* A bot reaches only services it was granted and has only capabilities that its operator was
\* entitled to when they were saved (build_feature_flags_for_post, inject_optional_tools_env).
THEOREM BotsUseOnlyWhatWasGrantedAlways == ToolSpec => []BotsUseOnlyWhatWasGranted
<1>1. ToolInv => BotsUseOnlyWhatWasGranted
  BY DEF ToolInv
<1> QED
  BY <1>1, ToolInvariant, PTL

-----------------------------------------------------------------------------
(* What is used in place of an induction: counterexamples have a least one. *)

\* a number with a property has a smallest one
LEMMA LeastNumber == ASSUME NEW S \in SUBSET Nat, S # {} PROVE \E i \in S : \A j \in S : i <= j
<1>1. IsWellFoundedOn({p \in Nat \X Nat : p[1] < p[2]}, Nat)
  BY NatLessThanWellFounded DEF OpToRel
<1>2. PICK i \in S : \A j \in S : ~ (<<j, i>> \in {p \in Nat \X Nat : p[1] < p[2]})
  BY <1>1, WFMin
<1>3. ASSUME NEW j \in S, j < i PROVE FALSE
  <2>1. <<j, i>> \in Nat \X Nat /\ <<j, i>>[1] < <<j, i>>[2]
    BY <1>3
  <2> QED
    BY <1>2, <2>1
<1>4. \A j \in S : j \in Nat /\ i \in Nat
  OBVIOUS
<1> QED
  BY <1>3, <1>4

-----------------------------------------------------------------------------
(* Crawls: walks.                                                           *)

\* the walks and distances of the model, for given links L and pages E that had content
Routes(L, E, n) ==
    {walk \in [0 .. n -> Url] :
        /\ walk[0] = Seed
        /\ \A i \in 1 .. n : \/ walk[i] = walk[i - 1]
                             \/ walk[i - 1] \in E /\ walk[i] \in L[walk[i - 1]]}
Reached(L, E, n) == {walk[n] : walk \in Routes(L, E, n)}

\* those of the model are over its own pages
LEMMA WithinIsReached == \A n : Within(n) = Reached(links, Extracted, n)
BY DEF Within, Walks, Reached, Routes

\* without a step one is at the seed
LEMMA ReachedAtOnce == ASSUME NEW L, NEW E PROVE Reached(L, E, 0) = {Seed}
<1>1. Seed \in Url
  BY BrainIngestAssumption
<1> DEFINE walk == [i \in 0 .. 0 |-> Seed]
<1>2. walk \in Routes(L, E, 0) /\ walk[0] = Seed
  BY <1>1 DEF Routes
<1>3. \A w \in Routes(L, E, 0) : w[0] = Seed
  BY DEF Routes
<1> QED
  BY <1>2, <1>3 DEF Reached

\* a walk may be cut short
LEMMA RoutePrefix ==
    ASSUME NEW L, NEW E, NEW n \in Nat, NEW k \in 0 .. n, NEW w \in Routes(L, E, n)
    PROVE  w[k] \in Reached(L, E, k)
<1> DEFINE v == [i \in 0 .. k |-> w[i]]
<1>1. /\ w \in [0 .. n -> Url] /\ w[0] = Seed
      /\ \A i \in 1 .. n : w[i] = w[i - 1] \/ (w[i - 1] \in E /\ w[i] \in L[w[i - 1]])
  BY DEF Routes
<1>2. 0 .. k \subseteq 0 .. n /\ 0 \in 0 .. k /\ k \in 0 .. k /\ k \in Nat
  OBVIOUS
<1>3. v \in [0 .. k -> Url] /\ v[0] = Seed /\ v[k] = w[k]
  BY <1>1, <1>2
<1>4. ASSUME NEW i \in 1 .. k PROVE v[i] = v[i - 1] \/ (v[i - 1] \in E /\ v[i] \in L[v[i - 1]])
  <2>1. i \in 1 .. n /\ i \in 0 .. k /\ i - 1 \in 0 .. k
    OBVIOUS
  <2>2. v[i] = w[i] /\ v[i - 1] = w[i - 1]
    BY <2>1
  <2> QED
    BY <1>1, <2>1, <2>2
<1>5. v \in Routes(L, E, k)
  BY <1>3, <1>4 DEF Routes
<1> QED
  BY <1>3, <1>5 DEF Reached

\* and goes on by a link, or by staying
LEMMA RouteGoesOn ==
    ASSUME NEW L, NEW E, NEW n \in Nat, NEW u \in Reached(L, E, n), NEW v \in Url,
           v = u \/ (u \in E /\ v \in L[u])
    PROVE  v \in Reached(L, E, n + 1)
<1>1. PICK w \in Routes(L, E, n) : w[n] = u
  BY DEF Reached
<1>2. /\ w \in [0 .. n -> Url] /\ w[0] = Seed
      /\ \A i \in 1 .. n : w[i] = w[i - 1] \/ (w[i - 1] \in E /\ w[i] \in L[w[i - 1]])
  BY DEF Routes
<1> DEFINE x == [i \in 0 .. (n + 1) |-> IF i = n + 1 THEN v ELSE w[i]]
<1>3. x \in [0 .. (n + 1) -> Url] /\ x[0] = Seed /\ x[n + 1] = v
  BY <1>2
<1>4. ASSUME NEW i \in 1 .. (n + 1)
      PROVE  x[i] = x[i - 1] \/ (x[i - 1] \in E /\ x[i] \in L[x[i - 1]])
  <2>1. i \in 0 .. (n + 1) /\ i - 1 \in 0 .. (n + 1) /\ i - 1 # n + 1
    OBVIOUS
  <2>2. x[i - 1] = w[i - 1]
    BY <2>1
  <2>3. CASE i = n + 1
    <3>1. i - 1 = n
      BY <2>3
    <3> QED
      BY <1>1, <1>3, <2>2, <2>3, <3>1
  <2>4. CASE i # n + 1
    <3>1. i \in 1 .. n /\ x[i] = w[i]
      BY <2>1, <2>4
    <3> QED
      BY <1>2, <2>2, <3>1
  <2> QED
    BY <2>3, <2>4
<1> HIDE DEF x
<1>5. x \in Routes(L, E, n + 1)
  BY <1>3, <1>4 DEF Routes
<1> QED
  BY <1>3, <1>5 DEF Reached

\* more steps and more pages reach more
LEMMA ReachedGrows ==
    ASSUME NEW L, NEW E, NEW n \in Nat, NEW m \in 0 .. n
    PROVE  Reached(L, E, m) \subseteq Reached(L, E, n)
<1> SUFFICES ASSUME NEW w \in Routes(L, E, m) PROVE w[m] \in Reached(L, E, n)
  BY DEF Reached
<1>1. /\ w \in [0 .. m -> Url] /\ w[0] = Seed
      /\ \A i \in 1 .. m : w[i] = w[i - 1] \/ (w[i - 1] \in E /\ w[i] \in L[w[i - 1]])
  BY DEF Routes
<1> DEFINE x == [i \in 0 .. n |-> IF i <= m THEN w[i] ELSE w[m]]
<1>2. x \in [0 .. n -> Url] /\ x[0] = Seed /\ x[n] = w[m]
  BY <1>1
<1>3. ASSUME NEW i \in 1 .. n PROVE x[i] = x[i - 1] \/ (x[i - 1] \in E /\ x[i] \in L[x[i - 1]])
  <2>1. i \in 0 .. n /\ i - 1 \in 0 .. n
    OBVIOUS
  <2>2. CASE i <= m
    <3>1. i \in 1 .. m /\ x[i] = w[i] /\ x[i - 1] = w[i - 1]
      BY <2>1, <2>2
    <3> QED
      BY <1>1, <3>1
  <2>3. CASE ~ i <= m
    <3>1. x[i] = w[m] /\ (i - 1 = m \/ ~ (i - 1 <= m))
      BY <2>1, <2>3
    <3>2. x[i - 1] = w[m]
      BY <2>1, <3>1
    <3> QED
      BY <3>1, <3>2
  <2> QED
    BY <2>2, <2>3
<1> HIDE DEF x
<1>4. x \in Routes(L, E, n)
  BY <1>2, <1>3 DEF Routes
<1> QED
  BY <1>2, <1>4 DEF Reached

\* with the links of more pages nothing is lost
LEMMA ReachedOverMore ==
    ASSUME NEW L, NEW E, NEW F, E \subseteq F, NEW n
    PROVE  Reached(L, E, n) \subseteq Reached(L, F, n)
BY DEF Reached, Routes

\* one more page makes nothing nearer than the page itself is
LEMMA ReachedBefore ==
    ASSUME NEW L, NEW E, NEW u, NEW n \in Nat, \A k \in 0 .. (n - 1) : u \notin Reached(L, E, k)
    PROVE  Reached(L, E \cup {u}, n) = Reached(L, E, n)
<1>1. Reached(L, E, n) \subseteq Reached(L, E \cup {u}, n)
  BY ReachedOverMore
<1>2. ASSUME NEW w \in Routes(L, E \cup {u}, n) PROVE w \in Routes(L, E, n)
  <2>1. /\ w \in [0 .. n -> Url] /\ w[0] = Seed
        /\ \A i \in 1 .. n : w[i] = w[i - 1] \/ (w[i - 1] \in E \cup {u} /\ w[i] \in L[w[i - 1]])
    BY DEF Routes
  <2> DEFINE Old(i) == w[i] = w[i - 1] \/ (w[i - 1] \in E /\ w[i] \in L[w[i - 1]])
             S == {i \in 1 .. n : ~ Old(i)}
  <2>2. SUFFICES S = {}
    BY <2>1, <2>2 DEF Routes
  <2>3. SUFFICES ASSUME S # {} PROVE FALSE
    OBVIOUS
  <2>4. S \in SUBSET Nat
    OBVIOUS
  <2>5. PICK i \in S : \A j \in S : i <= j
    BY <2>3, <2>4, LeastNumber
  <2>6. i \in 1 .. n /\ i - 1 \in 0 .. (n - 1) /\ i - 1 \in Nat /\ ~ Old(i)
    OBVIOUS
  <2>7. w[i - 1] = u
    BY <2>1, <2>6
  <2> DEFINE v == [j \in 0 .. (i - 1) |-> w[j]]
  <2>8. v \in [0 .. (i - 1) -> Url] /\ v[0] = Seed /\ v[i - 1] = u
    BY <2>1, <2>6, <2>7
  <2>9. ASSUME NEW j \in 1 .. (i - 1)
        PROVE  v[j] = v[j - 1] \/ (v[j - 1] \in E /\ v[j] \in L[v[j - 1]])
    <3>1. j \in 1 .. n /\ j \in 0 .. (i - 1) /\ j - 1 \in 0 .. (i - 1) /\ ~ i <= j
      BY <2>6
    <3>2. Old(j)
      BY <2>5, <3>1
    <3> QED
      BY <3>1, <3>2
  <2> HIDE DEF v
  <2>10. v \in Routes(L, E, i - 1)
    BY <2>8, <2>9 DEF Routes
  <2> QED
    BY <2>6, <2>8, <2>10 DEF Reached
<1> QED
  BY <1>1, <1>2 DEF Reached

\* walks stay in a set that has the links of what they come through
LEMMA ReachedStays ==
    ASSUME NEW L, NEW E, NEW V, Seed \in V, NEW n \in Nat,
           \A k \in 0 .. (n - 1) : \A u \in Reached(L, E, k) \cap E : L[u] \subseteq V
    PROVE  Reached(L, E, n) \subseteq V
<1> SUFFICES ASSUME NEW w \in Routes(L, E, n), w[n] \notin V PROVE FALSE
  BY DEF Reached
<1> DEFINE S == {i \in 0 .. n : w[i] \notin V}
<1>1. S \in SUBSET Nat /\ S # {}
  OBVIOUS
<1>2. PICK i \in S : \A j \in S : i <= j
  BY <1>1, LeastNumber
<1>3. w[0] = Seed
  BY DEF Routes
<1>4. i \in 1 .. n /\ i - 1 \in 0 .. n /\ i - 1 \in 0 .. (n - 1) /\ w[i] \notin V
  BY <1>3
<1>5. i - 1 \notin S
  BY <1>2, <1>4
<1>6. w[i - 1] \in V
  BY <1>4, <1>5
<1>7. w[i - 1] \in E /\ w[i] \in L[w[i - 1]]
  BY <1>4, <1>6 DEF Routes
<1>8. w[i - 1] \in Reached(L, E, i - 1)
  BY <1>4, RoutePrefix
<1> QED
  BY <1>4, <1>7, <1>8

-----------------------------------------------------------------------------
(* Crawls: the inductive invariant.                                         *)

Visits == [url : Url, depth : 0 .. MaxDepth]
Asked == {fetched[i] : i \in DOMAIN fetched}

CrawlTypes ==
    /\ links \in [Url -> SUBSET Url] /\ \A u \in Url : IsFiniteSet(links[u])
    /\ crawl \in [stage : {"none", "crawling", "failed", "ingesting", "reported"},
                  queue : Seq(Visits), visited : SUBSET Url, pages : Seq(Visits)]
    /\ fetched \in Seq(Url) /\ Len(fetched) <= MaxPages

\* p is as far from the seed as it says
Exact(p) == p.url \in Within(p.depth) /\ (p.depth > 0 => p.url \notin Within(p.depth - 1))

\* what was asked for was visited, and once
AskedInv ==
    /\ Asked \subseteq crawl.visited
    /\ \A i, j \in 1 .. Len(fetched) : fetched[i] = fetched[j] => i = j

\* pages are exact, nearer ones are first, and their links were visited
PagesInv ==
    LET P == crawl.pages
    IN  /\ crawl.stage # "none" => Seed \in crawl.visited
        /\ crawl.visited \subseteq Within(MaxDepth)
        /\ \A i \in 1 .. Len(P) : Exact(P[i])
        /\ \A i \in 1 .. Len(P) : \A j \in 1 .. i : P[j].depth <= P[i].depth
        /\ \A i \in 1 .. Len(P) : P[i].depth < MaxDepth => links[P[i].url] \subseteq crawl.visited

\* what waits was visited but not asked for yet, is exact, no nearer than the pages, and at most
\* one link farther than the first in the queue
QueueInv ==
    LET Q == crawl.queue
    IN  crawl.stage = "crawling" =>
        /\ \A i \in 1 .. Len(Q) : Q[i].url \in crawl.visited \ Asked /\ Exact(Q[i])
        /\ \A i, j \in 1 .. Len(Q) : Q[i].url = Q[j].url => i = j
        /\ \A i, j \in 1 .. Len(Q) :
               i <= j => Q[i].depth <= Q[j].depth /\ Q[j].depth <= Q[i].depth + 1
        /\ \A i \in 1 .. Len(crawl.pages), j \in 1 .. Len(Q) :
               crawl.pages[i].depth <= Q[j].depth

EndInv ==
    /\ crawl.stage \in {"ingesting", "reported"} => crawl.queue = <<>> \/ Len(fetched) >= MaxPages
    /\ crawl.stage = "reported" => stored = Len(crawl.pages)

CrawlInv == CrawlTypes /\ AskedInv /\ PagesInv /\ QueueInv /\ EndInv

-----------------------------------------------------------------------------
(* Crawls: the queue.                                                       *)

\* what is closed under the links of a page's neighbourhood contains all of the walks
LEMMA WithinGrows ==
    ASSUME CrawlTypes, NEW n \in Nat, NEW m \in 0 .. n
    PROVE  Within(m) \subseteq Within(n)
BY WithinIsReached, ReachedGrows

\* the steps that leave the pages and links alone leave the distances alone
LEMMA SamePages ==
    ASSUME links' = links, crawl'.pages = crawl.pages
    PROVE  \A n : Within(n)' = Within(n)
<1>1. Extracted' = Extracted
  BY DEF Extracted
<1> QED
  BY <1>1 DEF Within, Walks

\* a page is asked for, and has or has not content: what is reached by fewer steps is the same
LEMMA NewPage ==
    ASSUME CrawlTypes, NEW v \in Visits, Exact(v), links' = links,
           crawl'.pages = Append(crawl.pages, v)
    PROVE  /\ Extracted' = Extracted \cup {v.url}
           /\ \A n \in 0 .. v.depth : Within(n)' = Within(n)
           /\ \A n \in Nat : Within(n) \subseteq Within(n)'
<1>1. crawl.pages \in Seq(Visits)
  BY DEF CrawlTypes
<1>2. Extracted' = Extracted \cup {v.url}
  <2>1. Len(crawl.pages) \in Nat
    BY <1>1
  <2>2. \A i \in 1 .. Len(crawl.pages) : crawl'.pages[i] = crawl.pages[i]
    BY <1>1
  <2>3. DOMAIN crawl'.pages = 1 .. (Len(crawl.pages) + 1)
        /\ crawl'.pages[Len(crawl.pages) + 1] = v
    BY <1>1
  <2>4. DOMAIN crawl'.pages = (1 .. Len(crawl.pages)) \cup {Len(crawl.pages) + 1}
    BY <2>1, <2>3
  <2>5. DOMAIN crawl.pages = 1 .. Len(crawl.pages)
    BY <1>1
  <2> QED
    BY <2>2, <2>3, <2>4, <2>5 DEF Extracted
<1>3. \A n : Within(n) = Reached(links, Extracted, n)
  BY WithinIsReached
<1>4. \A n : Within(n)' = Reached(links, Extracted \cup {v.url}, n)
  BY <1>2, WithinIsReached DEF Within, Walks, Reached, Routes
<1>5. v.depth \in Nat
  BY DEF Visits
<1>6. ASSUME NEW k \in Nat, k < v.depth PROVE v.url \notin Reached(links, Extracted, k)
  <2>1. k \in 0 .. (v.depth - 1) /\ v.depth - 1 \in Nat /\ v.depth > 0
    BY <1>5, <1>6
  <2>2. v.url \notin Within(v.depth - 1)
    BY <2>1 DEF Exact
  <2> QED
    BY <1>3, <2>1, <2>2, WithinGrows
<1>7. ASSUME NEW n \in 0 .. v.depth PROVE Within(n)' = Within(n)
  <2>1. n \in Nat /\ \A k \in 0 .. (n - 1) : k \in Nat /\ k < v.depth
    BY <1>5
  <2>2. \A k \in 0 .. (n - 1) : v.url \notin Reached(links, Extracted, k)
    BY <1>6, <2>1
  <2>3. Reached(links, Extracted \cup {v.url}, n) = Reached(links, Extracted, n)
    BY <2>1, <2>2, ReachedBefore
  <2> QED
    BY <1>3, <1>4, <2>3
<1>8. \A n \in Nat : Within(n) \subseteq Within(n)'
  BY <1>3, <1>4, ReachedOverMore
<1> QED
  BY <1>2, <1>7, <1>8

\* so that what was exact and no farther than the next distance still is
LEMMA StaysExact ==
    ASSUME CrawlTypes, NEW v \in Visits, Exact(v), links' = links,
           crawl'.pages = Append(crawl.pages, v),
           NEW p \in Visits, Exact(p), p.depth <= v.depth + 1
    PROVE  Exact(p)'
<1>1. p.depth \in Nat /\ v.depth \in Nat
  BY DEF Visits
<1>2. p.url \in Within(p.depth)'
  BY <1>1, NewPage DEF Exact
<1>3. ASSUME p.depth > 0 PROVE p.url \notin Within(p.depth - 1)'
  <2>1. p.depth - 1 \in 0 .. v.depth
    BY <1>1, <1>3
  <2> QED
    BY <1>3, <2>1, NewPage DEF Exact
<1> QED
  BY <1>2, <1>3 DEF Exact

\* all that is near enough was visited
LEMMA NearIsVisited ==
    ASSUME CrawlTypes, PagesInv, crawl.stage # "none", NEW n \in 0 .. MaxDepth
    PROVE  Within(n) \subseteq crawl.visited
<1>1. n \in Nat /\ Seed \in crawl.visited
  BY BrainIngestAssumption DEF PagesInv
<1>2. ASSUME NEW k \in 0 .. (n - 1), NEW u \in Within(k) \cap Extracted
      PROVE  links[u] \subseteq crawl.visited
  <2>1. PICK i \in 1 .. Len(crawl.pages) : crawl.pages[i].url = u
    BY DEF Extracted, CrawlTypes
  <2>2. crawl.pages[i] \in Visits
    BY <2>1 DEF CrawlTypes
  <2>3. PICK d \in 0 .. MaxDepth : d = crawl.pages[i].depth
    BY <2>2 DEF Visits
  <2>4. d > 0 => u \notin Within(d - 1)
    BY <2>1, <2>3 DEF PagesInv, Exact
  <2>5. d <= k
    <3>1. ASSUME ~ d <= k PROVE FALSE
      <4>1. d > 0 /\ d - 1 \in Nat /\ k \in 0 .. (d - 1)
        BY <3>1
      <4> QED
        BY <2>4, <4>1, WithinGrows
    <3> QED
      BY <3>1
  <2>6. d < MaxDepth
    BY <2>5, BrainIngestAssumption
  <2> QED
    BY <2>1, <2>3, <2>6 DEF PagesInv
<1>3. \A k \in 0 .. (n - 1) : \A u \in Reached(links, Extracted, k) \cap Extracted :
          links[u] \subseteq crawl.visited
  BY <1>2, WithinIsReached
<1>4. PICK V : V = crawl.visited
  OBVIOUS
<1>5. Reached(links, Extracted, n) \subseteq V
  BY <1>1, <1>3, <1>4, ReachedStays
<1> QED
  BY <1>4, <1>5, WithinIsReached

-----------------------------------------------------------------------------
(* Crawls: what is taken from the queue and what is found.                  *)

\* the head of a queue and the others, which move up
LEMMA HeadOfQueue ==
    ASSUME NEW Q \in Seq(Visits), Q # <<>>
    PROVE  /\ Len(Q) \in Nat \ {0} /\ Head(Q) \in Visits /\ Head(Q) = Q[1]
           /\ Tail(Q) \in Seq(Visits) /\ Len(Tail(Q)) = Len(Q) - 1
           /\ \A i \in 1 .. Len(Tail(Q)) : Tail(Q)[i] = Q[i + 1] /\ i + 1 \in 1 .. Len(Q)
OBVIOUS

\* what enqueue_links finds on the page v, unseen and in some order
Found(v, found) ==
    /\ found \in Seq(Visits)
    /\ \A i \in 1 .. Len(found) :
        /\ found[i].depth = v.depth + 1
        /\ found[i].url \in links[v.url] \ crawl.visited
    /\ \A i, j \in 1 .. Len(found) : found[i].url = found[j].url => i = j
    /\ v.depth < MaxDepth =>
           links[v.url] \subseteq crawl.visited \cup {found[i].url : i \in 1 .. Len(found)}
    /\ ~ v.depth < MaxDepth => found = <<>>

\* the links that parse takes, in whatever order, are such entries
LEMMA FoundLinks ==
    ASSUME CrawlTypes, NEW v \in Visits, NEW order \in Orders(Unseen(crawl.visited, v.url)),
           NEW found, found = Links(v.url, v.depth, order)
    PROVE  Found(v, found)
<1>1. PICK d \in 0 .. MaxDepth : d = v.depth
  BY DEF Visits
<1>2. MaxDepth \in Nat /\ d \in Nat /\ v.url \in Url
  BY <1>1, BrainIngestAssumption DEF Visits
<1>3. CASE d >= MaxDepth
  <2>1. found = <<>> /\ ~ d < MaxDepth /\ found \in Seq(Visits) /\ Len(found) = 0
    BY <1>1, <1>2, <1>3 DEF Links
  <2> QED
    BY <1>1, <2>1 DEF Found
<1>4. CASE ~ (d >= MaxDepth)
  <2> DEFINE S == Unseen(crawl.visited, v.url)
  <2>0. PICK n : n = Cardinality(S)
    OBVIOUS
  <2>1. S \subseteq Url /\ S \subseteq links[v.url] \ crawl.visited /\ IsFiniteSet(S) /\ n \in Nat
    <3>1. IsFiniteSet(links[v.url]) /\ links[v.url] \subseteq Url /\ S \in SUBSET links[v.url]
      BY <1>2 DEF CrawlTypes, Unseen
    <3> QED
      BY <2>0, <3>1, FS_Subset, FS_CardinalityType DEF Unseen
  <2>2. order \in [1 .. n -> S] /\ {order[i] : i \in DOMAIN order} = S
    BY <2>0 DEF Orders
  <2>3. \A i, j \in 1 .. n : order[i] = order[j] => i = j
    <3>1. order \in Surjection(1 .. n, S)
      BY <2>2 DEF Surjection
    <3>2. IsFiniteSet(1 .. n) /\ Cardinality(1 .. n) = n
      BY <2>1, FS_Interval
    <3>3. order \in Injection(1 .. n, S)
      BY <2>0, <3>1, <3>2, FS_Surjection
    <3> QED
      BY <2>2, <3>3 DEF Injection, IsInjective
  <2>4. found = [i \in 1 .. n |-> [url |-> order[i], depth |-> d + 1]]
    BY <1>1, <1>4, <2>2 DEF Links
  <2>5. d + 1 \in 0 .. MaxDepth /\ d < MaxDepth
    BY <1>2, <1>4
  <2> HIDE DEF S
  <2>6. \A i \in 1 .. n : order[i] \in S /\ found[i] = [url |-> order[i], depth |-> d + 1]
    BY <2>2, <2>4
  <2>7. found \in [1 .. n -> Visits]
    BY <2>1, <2>4, <2>5, <2>6 DEF Visits
  <2>8. found \in Seq(Visits) /\ Len(found) = n /\ DOMAIN found = 1 .. n
    BY <2>1, <2>7
  <2>9. ASSUME NEW i \in 1 .. n PROVE found[i].url = order[i] /\ found[i].depth = d + 1
    <3>1. found[i] = [url |-> order[i], depth |-> d + 1]
      BY <2>6
    <3> QED
      BY <3>1
  <2>10. \A i, j \in 1 .. n : found[i].url = found[j].url => i = j
    BY <2>3, <2>9
  <2>11. links[v.url] \subseteq crawl.visited \cup {found[i].url : i \in 1 .. n}
    <3>1. S = links[v.url] \ crawl.visited
      BY DEF S, Unseen
    <3>2. ASSUME NEW u \in links[v.url], u \notin crawl.visited
          PROVE  \E i \in 1 .. n : found[i].url = u
      <4>1. PICK i \in 1 .. n : order[i] = u
        BY <2>2, <3>1, <3>2
      <4> QED
        BY <2>9, <4>1
    <3> QED
      BY <3>2
  <2> QED
    BY <1>1, <2>1, <2>5, <2>6, <2>8, <2>9, <2>10, <2>11 DEF Found
<1> QED
  BY <1>3, <1>4

\* a page with content, as one step
Visited(v, rest, found) ==
    /\ crawl' = [stage |-> crawl.stage, queue |-> rest \o found,
                 visited |-> crawl.visited \cup {found[i].url : i \in 1 .. Len(found)},
                 pages |-> Append(crawl.pages, v)]
    /\ fetched' = Append(fetched, v.url)

\* CrawlPage takes it when the page has content
LEMMA ContentStep ==
    ASSUME CrawlTypes, crawl.queue # <<>>, PageHasContent
    PROVE  \E found : /\ Found(Head(crawl.queue), found)
                      /\ Visited(Head(crawl.queue), Tail(crawl.queue), found)
<1>1. PICK v \in Visits : v = Head(crawl.queue)
  BY HeadOfQueue DEF CrawlTypes
<1>2. v = [url |-> v.url, depth |-> v.depth]
  BY DEF Visits
<1>3. PICK order \in Orders(Unseen(crawl.visited, NextUrl)) :
         crawl' = [Rest EXCEPT
                    !.queue = Enqueued(@, Links(NextUrl, Head(crawl.queue).depth, order)),
                    !.visited = @ \cup {Links(NextUrl, Head(crawl.queue).depth, order)[i].url :
                         i \in DOMAIN Links(NextUrl, Head(crawl.queue).depth, order)},
                    !.pages = Append(@, [url |-> NextUrl, depth |-> Head(crawl.queue).depth])]
  BY DEF PageHasContent
<1>4. PICK found : found = Links(v.url, v.depth, order)
  OBVIOUS
<1>5. Found(v, found)
  <2>1. order \in Orders(Unseen(crawl.visited, v.url))
    BY <1>1, <1>3 DEF NextUrl
  <2> QED
    BY <1>4, <2>1, FoundLinks
<1>6. DOMAIN found = 1 .. Len(found)
  BY <1>5 DEF Found
<1>7. crawl' = [Rest EXCEPT
                    !.queue = Enqueued(@, found),
                    !.visited = @ \cup {found[i].url : i \in 1 .. Len(found)},
                    !.pages = Append(@, v)]
  BY <1>1, <1>2, <1>3, <1>4, <1>6 DEF NextUrl
<1>8. fetched' = Append(fetched, v.url)
  BY <1>1 DEF PageHasContent, NextUrl
<1> QED
  BY <1>1, <1>5, <1>7, <1>8 DEF Visited, Rest, Enqueued, CrawlTypes

-----------------------------------------------------------------------------
(* Crawls: a page with content.                                             *)

\* the entries of the new queue are those that wait and those that were found
LEMMA Queued ==
    ASSUME NEW rest \in Seq(Visits), NEW found \in Seq(Visits), NEW Q, Q = rest \o found
    PROVE  /\ Q \in Seq(Visits) /\ Len(Q) = Len(rest) + Len(found)
           /\ Len(rest) \in Nat /\ Len(found) \in Nat
           /\ \A i \in 1 .. Len(rest) : Q[i] = rest[i]
           /\ \A i \in 1 .. Len(Q) :
                  i \notin 1 .. Len(rest) =>
                      /\ i - Len(rest) \in 1 .. Len(found) /\ Q[i] = found[i - Len(rest)]
                      /\ i > Len(rest)
OBVIOUS

\* what has been asked for, once more is
LEMMA AskedMore ==
    ASSUME CrawlTypes, NEW u \in Url, fetched' = Append(fetched, u)
    PROVE  /\ Asked' = Asked \cup {u} /\ fetched' \in Seq(Url) /\ Len(fetched') = Len(fetched) + 1
           /\ \A i \in 1 .. Len(fetched) : fetched'[i] = fetched[i]
           /\ fetched'[Len(fetched) + 1] = u /\ Len(fetched) \in Nat
<1>1. fetched \in Seq(Url)
  BY DEF CrawlTypes
<1>2. /\ fetched' \in Seq(Url) /\ Len(fetched') = Len(fetched) + 1 /\ Len(fetched) \in Nat
      /\ \A i \in 1 .. Len(fetched) : fetched'[i] = fetched[i]
      /\ fetched'[Len(fetched) + 1] = u
  BY <1>1
<1>3. DOMAIN fetched = 1 .. Len(fetched) /\ DOMAIN fetched' = 1 .. (Len(fetched) + 1)
  BY <1>1, <1>2
<1>4. 1 .. (Len(fetched) + 1) = (1 .. Len(fetched)) \cup {Len(fetched) + 1}
  BY <1>2
<1> QED
  BY <1>2, <1>3, <1>4 DEF Asked

\* the same of the pages
LEMMA PagesMore ==
    ASSUME NEW P \in Seq(Visits), NEW v \in Visits, NEW Q, Q = Append(P, v)
    PROVE  /\ Q \in Seq(Visits) /\ Len(Q) = Len(P) + 1 /\ Len(P) \in Nat
           /\ \A i \in 1 .. Len(P) : Q[i] = P[i]
           /\ \A i \in 1 .. Len(Q) : i \notin 1 .. Len(P) => i = Len(P) + 1 /\ Q[i] = v
OBVIOUS

\* the state before a page v with content is taken from the queue, and what it has found
Takes(v, rest, found) ==
    /\ CrawlTypes /\ AskedInv /\ PagesInv /\ QueueInv /\ links' = links
    /\ crawl.stage = "crawling" /\ crawl.queue # <<>> /\ Len(fetched) < MaxPages
    /\ v = Head(crawl.queue) /\ rest = Tail(crawl.queue)
    /\ v \in Visits /\ rest \in Seq(Visits)
    /\ Found(v, found) /\ Visited(v, rest, found)

\* v is exact, and no nearer than the pages, and others in the queue are as far or a link farther
LEMMA HeadTaken ==
    ASSUME NEW v, NEW rest, NEW found, Takes(v, rest, found)
    PROVE  /\ v.depth \in 0 .. MaxDepth /\ v.url \in Url /\ MaxDepth \in Nat
           /\ Exact(v) /\ v.url \in crawl.visited \ Asked
           /\ \A i \in 1 .. Len(crawl.pages) : crawl.pages[i].depth <= v.depth
           /\ \A i \in 1 .. Len(rest) :
               /\ rest[i].url \in crawl.visited \ Asked /\ Exact(rest[i]) /\ rest[i].url # v.url
               /\ v.depth <= rest[i].depth /\ rest[i].depth <= v.depth + 1
           /\ \A i, j \in 1 .. Len(rest) : rest[i].url = rest[j].url => i = j
           /\ \A i, j \in 1 .. Len(rest) :
               i <= j => rest[i].depth <= rest[j].depth /\ rest[j].depth <= rest[i].depth + 1
<1>1. PICK Q \in Seq(Visits) : Q = crawl.queue
  BY DEF Takes, CrawlTypes
<1>2. /\ Len(Q) \in Nat \ {0} /\ v = Q[1] /\ Len(rest) = Len(Q) - 1
      /\ \A i \in 1 .. Len(rest) : rest[i] = Q[i + 1] /\ i + 1 \in 1 .. Len(Q)
  BY <1>1, HeadOfQueue DEF Takes
<1>3. /\ \A i \in 1 .. Len(Q) : Q[i].url \in crawl.visited \ Asked /\ Exact(Q[i])
      /\ \A i, j \in 1 .. Len(Q) : Q[i].url = Q[j].url => i = j
      /\ \A i, j \in 1 .. Len(Q) :
             i <= j => Q[i].depth <= Q[j].depth /\ Q[j].depth <= Q[i].depth + 1
      /\ \A i \in 1 .. Len(crawl.pages), j \in 1 .. Len(Q) : crawl.pages[i].depth <= Q[j].depth
  BY <1>1 DEF Takes, QueueInv
<1>4. v.depth \in 0 .. MaxDepth /\ v.url \in Url /\ MaxDepth \in Nat
  BY BrainIngestAssumption DEF Takes, Visits
<1>5. 1 \in 1 .. Len(Q)
  BY <1>2
<1>6. /\ Exact(v) /\ v.url \in crawl.visited \ Asked
      /\ \A i \in 1 .. Len(crawl.pages) : crawl.pages[i].depth <= v.depth
  BY <1>2, <1>3, <1>5
<1>7. ASSUME NEW i \in 1 .. Len(rest)
      PROVE  /\ rest[i].url \in crawl.visited \ Asked /\ Exact(rest[i]) /\ rest[i].url # v.url
             /\ v.depth <= rest[i].depth /\ rest[i].depth <= v.depth + 1
  <2>1. rest[i] = Q[i + 1] /\ i + 1 \in 1 .. Len(Q) /\ 1 <= i + 1 /\ i + 1 # 1
    BY <1>2
  <2> QED
    BY <1>2, <1>3, <1>5, <2>1
<1>8. ASSUME NEW i \in 1 .. Len(rest), NEW j \in 1 .. Len(rest)
      PROVE  /\ rest[i].url = rest[j].url => i = j
             /\ i <= j => rest[i].depth <= rest[j].depth /\ rest[j].depth <= rest[i].depth + 1
  <2>1. PICK k \in 1 .. Len(Q), l \in 1 .. Len(Q) :
           k = i + 1 /\ l = j + 1 /\ rest[i] = Q[k] /\ rest[j] = Q[l]
    BY <1>2
  <2>2. (k = l => i = j) /\ (i <= j => k <= l)
    BY <2>1
  <2> QED
    BY <1>3, <2>1, <2>2
<1> QED
  BY <1>4, <1>6, <1>7, <1>8

\* what is found is exact, and was not asked for
LEMMA FoundExact ==
    ASSUME NEW v, NEW rest, NEW found, Takes(v, rest, found), NEW i \in 1 .. Len(found)
    PROVE  /\ Exact(found[i])' /\ found[i].url \notin crawl.visited
           /\ found[i].depth = v.depth + 1 /\ v.depth < MaxDepth
           /\ found[i].url \in Within(v.depth + 1)'
<1>1. PICK d \in 0 .. MaxDepth : d = v.depth
  BY HeadTaken
<1>2. /\ MaxDepth \in Nat /\ d \in Nat /\ v \in Visits /\ v.url \in Url /\ Exact(v) /\ CrawlTypes
      /\ links' = links /\ crawl'.pages = Append(crawl.pages, v)
  <2>1. MaxDepth \in Nat /\ v.url \in Url /\ Exact(v)
    BY HeadTaken
  <2>2. v \in Visits /\ CrawlTypes /\ links' = links /\ Visited(v, rest, found)
    BY DEF Takes
  <2>3. crawl'.pages = Append(crawl.pages, v)
    BY <2>2 DEF Visited
  <2> QED
    BY <1>1, <2>1, <2>2, <2>3
<1>3. /\ found[i].depth = d + 1 /\ found[i].url \in links[v.url]
      /\ found[i].url \notin crawl.visited /\ d < MaxDepth
  <2>1. found # <<>>
    OBVIOUS
  <2> QED
    BY <1>1, <2>1 DEF Takes, Found
<1>4. /\ Extracted' = Extracted \cup {v.url} /\ Within(d)' = Within(d)
  BY <1>1, <1>2, NewPage
<1>5. PICK E : E = Extracted'
  OBVIOUS
<1>6. \A n : Within(n)' = Reached(links, E, n)
  BY <1>2, <1>5 DEF Within, Walks, Reached, Routes
<1>7. v.url \in Reached(links, E, d) /\ v.url \in E /\ found[i].url \in Url
  <2>1. v.url \in Within(d)
    BY <1>1, <1>2 DEF Exact
  <2>2. links[v.url] \subseteq Url
    BY <1>2 DEF CrawlTypes
  <2> QED
    BY <1>3, <1>4, <1>5, <1>6, <2>1, <2>2
<1>8. found[i].url \in Reached(links, E, d + 1)
  BY <1>2, <1>3, <1>7, RouteGoesOn
<1>9. found[i].url \notin Within(d)'
  <2>1. Within(d) \subseteq crawl.visited
    BY <1>1, <1>2, NearIsVisited DEF Takes
  <2> QED
    BY <1>3, <1>4, <2>1
<1>10. d + 1 - 1 = d
  BY <1>2
<1> QED
  BY <1>1, <1>3, <1>6, <1>8, <1>9, <1>10 DEF Exact

\* the queue after the page
LEMMA ContentQueue ==
    ASSUME NEW v, NEW rest, NEW found, Takes(v, rest, found) PROVE QueueInv'
<1>1. PICK Q \in Seq(Visits) : Q = crawl'.queue /\ Q = rest \o found
  <2>1. rest \in Seq(Visits) /\ found \in Seq(Visits) /\ crawl'.queue = rest \o found
    BY DEF Takes, Found, Visited
  <2> QED
    BY <2>1, Queued
<1>2. /\ Len(Q) = Len(rest) + Len(found) /\ Len(rest) \in Nat /\ Len(found) \in Nat
      /\ \A i \in 1 .. Len(rest) : Q[i] = rest[i]
      /\ \A i \in 1 .. Len(Q) : i \notin 1 .. Len(rest) =>
             /\ i - Len(rest) \in 1 .. Len(found) /\ Q[i] = found[i - Len(rest)]
             /\ i > Len(rest)
  BY <1>1, Queued DEF Takes, Found
<1>3. PICK d \in 0 .. MaxDepth : d = v.depth
  BY HeadTaken
<1>4. /\ crawl'.visited = crawl.visited \cup {found[i].url : i \in 1 .. Len(found)}
      /\ Asked' = Asked \cup {v.url} /\ Asked \subseteq crawl.visited
      /\ v.url \in crawl.visited /\ d \in Nat
  <2>1. v.url \in Url /\ v.url \in crawl.visited
    BY HeadTaken
  <2>2. CrawlTypes /\ fetched' = Append(fetched, v.url)
    BY DEF Takes, Visited
  <2>3. Asked' = Asked \cup {v.url}
    BY <2>1, <2>2, AskedMore
  <2> QED
    BY <1>3, <2>1, <2>3 DEF Takes, Visited, AskedInv
<1>5. ASSUME NEW i \in 1 .. Len(rest)
      PROVE  /\ rest[i].url \in crawl.visited \ Asked /\ rest[i].url # v.url
             /\ d <= rest[i].depth /\ rest[i].depth <= d + 1 /\ Exact(rest[i])'
             /\ rest[i].depth \in Nat
  <2>1. /\ rest[i].url \in crawl.visited \ Asked /\ Exact(rest[i]) /\ rest[i].url # v.url
        /\ d <= rest[i].depth /\ rest[i].depth <= d + 1 /\ Exact(v)
    BY <1>3, HeadTaken
  <2>2. PICK p \in Visits : p = rest[i]
    BY DEF Takes
  <2>3. /\ v \in Visits /\ CrawlTypes /\ links' = links
        /\ crawl'.pages = Append(crawl.pages, v)
    BY DEF Takes, Visited
  <2>4. Exact(p)'
    BY <1>3, <2>1, <2>2, <2>3, StaysExact
  <2>5. p.depth \in Nat
    BY DEF Visits
  <2>6. Exact(rest[i])'
    BY <2>2, <2>4
  <2> QED
    BY <2>1, <2>2, <2>5, <2>6
<1>6. ASSUME NEW i \in 1 .. Len(found)
      PROVE  /\ found[i].url \notin crawl.visited /\ found[i].depth = d + 1 /\ Exact(found[i])'
             /\ found[i].url \in crawl'.visited
  BY <1>3, <1>4, FoundExact
<1>7. /\ \A i, j \in 1 .. Len(rest) : rest[i].url = rest[j].url => i = j
      /\ \A i, j \in 1 .. Len(rest) :
             i <= j => rest[i].depth <= rest[j].depth /\ rest[j].depth <= rest[i].depth + 1
  BY HeadTaken
<1>8. \A i, j \in 1 .. Len(found) : found[i].url = found[j].url => i = j
  BY DEF Takes, Found
<1>9. ASSUME NEW i \in 1 .. Len(Q)
      PROVE  Q[i].url \in crawl'.visited \ Asked' /\ Exact(Q[i])' /\ d <= Q[i].depth
  <2>1. CASE i \in 1 .. Len(rest)
    BY <1>2, <1>4, <1>5, <2>1
  <2>2. CASE i \notin 1 .. Len(rest)
    <3>1. PICK k \in 1 .. Len(found) : Q[i] = found[k]
      BY <1>2, <2>2
    <3>2. /\ found[k].url \notin crawl.visited /\ found[k].depth = d + 1 /\ Exact(found[k])'
          /\ found[k].url \in crawl'.visited
      BY <1>6
    <3> QED
      BY <1>4, <3>1, <3>2
  <2> QED
    BY <2>1, <2>2
<1>10. ASSUME NEW i \in 1 .. Len(Q), NEW j \in 1 .. Len(Q)
       PROVE  /\ Q[i].url = Q[j].url => i = j
              /\ i <= j => Q[i].depth <= Q[j].depth /\ Q[j].depth <= Q[i].depth + 1
  <2>1. CASE i \in 1 .. Len(rest) /\ j \in 1 .. Len(rest)
    BY <1>2, <1>7, <2>1
  <2>2. CASE i \in 1 .. Len(rest) /\ j \notin 1 .. Len(rest)
    <3>1. PICK k \in 1 .. Len(found) : Q[j] = found[k]
      BY <1>2, <2>2
    <3>2. Q[i] = rest[i]
      BY <1>2, <2>2
    <3>3. /\ rest[i].url \in crawl.visited /\ d <= rest[i].depth /\ rest[i].depth <= d + 1
          /\ rest[i].depth \in Nat
      BY <1>5, <2>2
    <3>4. found[k].url \notin crawl.visited /\ found[k].depth = d + 1
      BY <1>6
    <3> QED
      BY <1>4, <3>1, <3>2, <3>3, <3>4
  <2>3. CASE i \notin 1 .. Len(rest) /\ j \in 1 .. Len(rest)
    <3>1. PICK k \in 1 .. Len(found) : Q[i] = found[k]
      BY <1>2, <2>3
    <3>2. Q[j] = rest[j] /\ ~ i <= j
      BY <1>2, <2>3
    <3>3. rest[j].url \in crawl.visited
      BY <1>5, <2>3
    <3>4. found[k].url \notin crawl.visited
      BY <1>6
    <3> QED
      BY <3>1, <3>2, <3>3, <3>4
  <2>4. CASE i \notin 1 .. Len(rest) /\ j \notin 1 .. Len(rest)
    <3>1. PICK k \in 1 .. Len(found) : k = i - Len(rest) /\ Q[i] = found[k]
      BY <1>2, <2>4
    <3>2. PICK l \in 1 .. Len(found) : l = j - Len(rest) /\ Q[j] = found[l]
      BY <1>2, <2>4
    <3>3. found[k].depth = d + 1 /\ found[l].depth = d + 1
      BY <1>6
    <3>4. k = l => i = j
      BY <1>2, <3>1, <3>2
    <3> QED
      BY <1>4, <1>8, <3>1, <3>2, <3>3, <3>4
  <2> QED
    BY <2>1, <2>2, <2>3, <2>4
<1>11. ASSUME NEW i \in 1 .. Len(crawl'.pages), NEW j \in 1 .. Len(Q)
       PROVE  crawl'.pages[i].depth <= Q[j].depth
  <2>1. PICK P \in Seq(Visits) : P = crawl.pages
    BY DEF Takes, CrawlTypes
  <2>2. PICK R : R = Append(P, v) /\ R = crawl'.pages
    BY <2>1 DEF Takes, Visited
  <2>3. /\ v \in Visits /\ Len(R) = Len(P) + 1 /\ Len(P) \in Nat
        /\ \A k \in 1 .. Len(P) : R[k] = P[k]
        /\ \A k \in 1 .. Len(R) : k \notin 1 .. Len(P) => k = Len(P) + 1 /\ R[k] = v
    BY <2>2, PagesMore DEF Takes
  <2>4. R[i].depth <= d /\ R[i].depth \in Nat
    <3>1. CASE i \in 1 .. Len(P)
      <4>1. P[i] \in Visits /\ P[i].depth <= d
        BY <1>3, <2>1, <3>1, HeadTaken
      <4>2. P[i].depth \in Nat
        BY <4>1 DEF Visits
      <4> QED
        BY <2>3, <3>1, <4>1, <4>2
    <3>2. CASE i \notin 1 .. Len(P)
      <4>1. R[i] = v
        BY <2>2, <2>3, <3>2
      <4> QED
        BY <1>3, <4>1
    <3> QED
      BY <3>1, <3>2
  <2>5. d <= Q[j].depth
    BY <1>9
  <2>6. Q[j].depth \in Nat
    <3>1. Q[j] \in Visits
      BY <1>1
    <3> QED
      BY <3>1 DEF Visits
  <2> QED
    BY <2>2, <2>4, <2>5, <2>6
<1> QED
  BY <1>1, <1>9, <1>10, <1>11 DEF QueueInv

\* the pages after the page
LEMMA ContentPages ==
    ASSUME NEW v, NEW rest, NEW found, Takes(v, rest, found) PROVE PagesInv'
<1>1. PICK P \in Seq(Visits) : P = crawl.pages
  BY DEF Takes, CrawlTypes
<1>2. PICK R : R = Append(P, v) /\ R = crawl'.pages
  BY <1>1 DEF Takes, Visited
<1>3. PICK d \in 0 .. MaxDepth : d = v.depth
  BY HeadTaken
<1>4. /\ R \in Seq(Visits) /\ Len(R) = Len(P) + 1 /\ Len(P) \in Nat
      /\ \A i \in 1 .. Len(P) : R[i] = P[i]
      /\ \A i \in 1 .. Len(R) : i \notin 1 .. Len(P) => i = Len(P) + 1 /\ R[i] = v
  BY <1>2, PagesMore DEF Takes
<1>5. /\ v \in Visits /\ CrawlTypes /\ links' = links /\ PagesInv /\ v.url \in Url
      /\ crawl'.pages = Append(crawl.pages, v) /\ crawl.stage = "crawling"
      /\ crawl'.visited = crawl.visited \cup {found[i].url : i \in 1 .. Len(found)}
  BY HeadTaken DEF Takes, Visited
<1>6. /\ crawl.stage # "none" => Seed \in crawl.visited
      /\ crawl.visited \subseteq Within(MaxDepth)
      /\ \A i \in 1 .. Len(P) : Exact(P[i])
      /\ \A i \in 1 .. Len(P) : \A j \in 1 .. i : P[j].depth <= P[i].depth
      /\ \A i \in 1 .. Len(P) : P[i].depth < MaxDepth => links[P[i].url] \subseteq crawl.visited
  BY <1>1, <1>5 DEF PagesInv
<1>7. Exact(v) /\ MaxDepth \in Nat /\ d \in Nat /\ \A i \in 1 .. Len(P) : P[i].depth <= d
  BY <1>1, <1>3, HeadTaken
<1>8. crawl'.visited \subseteq Within(MaxDepth)'
  <2>1. Within(MaxDepth) \subseteq Within(MaxDepth)'
    BY <1>5, <1>7, NewPage
  <2>2. ASSUME NEW i \in 1 .. Len(found) PROVE found[i].url \in Within(MaxDepth)'
    <3>1. d < MaxDepth /\ found[i].url \in Within(d + 1)'
      BY <1>3, FoundExact
    <3>2. d + 1 \in 0 .. MaxDepth
      BY <1>7, <3>1
    <3>3. PICK E : E = Extracted'
      OBVIOUS
    <3>4. \A n : Within(n)' = Reached(links, E, n)
      BY <1>5, <3>3 DEF Within, Walks, Reached, Routes
    <3> QED
      BY <1>7, <3>1, <3>2, <3>4, ReachedGrows
  <2> QED
    BY <1>5, <1>6, <2>1, <2>2
<1>9. ASSUME NEW i \in 1 .. Len(R) PROVE Exact(R[i])' /\ R[i].depth \in Nat /\ R[i].depth <= d
  <2>1. PICK p \in Visits : p = R[i]
    BY <1>4
  <2>2. p.depth \in Nat
    BY DEF Visits
  <2>3. Exact(p) /\ p.depth <= d
    BY <1>3, <1>4, <1>6, <1>7, <2>1
  <2>4. Exact(p)'
    BY <1>3, <1>5, <1>7, <2>2, <2>3, StaysExact
  <2> QED
    BY <2>1, <2>2, <2>3, <2>4
<1>10. ASSUME NEW i \in 1 .. Len(R), NEW j \in 1 .. i PROVE R[j].depth <= R[i].depth
  <2>1. CASE i \in 1 .. Len(P)
    <3>1. j \in 1 .. Len(P)
      BY <1>4, <2>1
    <3> QED
      BY <1>4, <1>6, <2>1, <3>1
  <2>2. CASE i \notin 1 .. Len(P)
    <3>1. j \in 1 .. Len(R) /\ R[i] = v
      BY <1>4, <2>2
    <3> QED
      BY <1>3, <1>9, <3>1
  <2> QED
    BY <2>1, <2>2
<1>11. ASSUME NEW i \in 1 .. Len(R), R[i].depth < MaxDepth
       PROVE  links[R[i].url] \subseteq crawl'.visited
  <2>1. CASE i \in 1 .. Len(P)
    BY <1>4, <1>5, <1>6, <1>11, <2>1
  <2>2. CASE i \notin 1 .. Len(P)
    <3>1. R[i] = v
      BY <1>4, <2>2
    <3>2. Found(v, found)
      BY DEF Takes
    <3> QED
      BY <1>5, <1>11, <3>1, <3>2 DEF Found
  <2> QED
    BY <2>1, <2>2
<1>12. \A i \in 1 .. Len(R) : Exact(R[i])'
  BY <1>9
<1>13. Seed \in crawl'.visited
  BY <1>5, <1>6
<1> QED
  BY <1>2, <1>5, <1>8, <1>10, <1>11, <1>12, <1>13 DEF PagesInv

-----------------------------------------------------------------------------
(* Crawls: the other steps.                                                 *)

\* a queue without its head
LEMMA ShorterQueue ==
    ASSUME CrawlTypes, QueueInv, crawl.stage = "crawling", crawl.queue # <<>>,
           crawl' = Rest, links' = links,
           Asked' \subseteq Asked \cup {Head(crawl.queue).url}
    PROVE  QueueInv'
<1>1. PICK Q \in Seq(Visits) : Q = crawl.queue /\ Q # <<>>
  BY DEF CrawlTypes
<1>2. PICK T : T = Tail(Q)
  OBVIOUS
<1>3. /\ Len(Q) \in Nat \ {0} /\ Head(Q) = Q[1] /\ Len(T) = Len(Q) - 1
      /\ \A i \in 1 .. Len(T) : T[i] = Q[i + 1] /\ i + 1 \in 1 .. Len(Q)
  BY <1>1, <1>2, HeadOfQueue
<1>4. /\ crawl'.queue = T /\ crawl'.visited = crawl.visited /\ crawl'.pages = crawl.pages
      /\ crawl'.stage = crawl.stage
  BY <1>1, <1>2 DEF Rest, CrawlTypes
<1>5. /\ \A i \in 1 .. Len(Q) : Q[i].url \in crawl.visited \ Asked /\ Exact(Q[i])
      /\ \A i, j \in 1 .. Len(Q) : Q[i].url = Q[j].url => i = j
      /\ \A i, j \in 1 .. Len(Q) :
             i <= j => Q[i].depth <= Q[j].depth /\ Q[j].depth <= Q[i].depth + 1
      /\ \A i \in 1 .. Len(crawl.pages), j \in 1 .. Len(Q) : crawl.pages[i].depth <= Q[j].depth
  BY <1>1 DEF QueueInv
<1>6. \A n : Within(n)' = Within(n)
  BY <1>4, SamePages
<1>7. ASSUME NEW i \in 1 .. Len(T)
      PROVE  /\ T[i].url \in crawl'.visited \ Asked' /\ Exact(T[i])'
             /\ \A k \in 1 .. Len(crawl.pages) : crawl.pages[k].depth <= T[i].depth
  <2>1. PICK k \in 1 .. Len(Q) : k = i + 1 /\ T[i] = Q[k]
    BY <1>3
  <2>2. k # 1 /\ 1 \in 1 .. Len(Q)
    BY <1>3, <2>1
  <2>3. Q[k].url # Head(Q).url
    BY <1>3, <1>5, <2>2
  <2>4. Exact(T[i])'
    <3>1. PICK p : p = T[i]
      OBVIOUS
    <3>2. Exact(p)
      BY <1>5, <2>1, <3>1
    <3>3. T' = T
      BY <3>1
    <3>4. Exact(p)'
      BY <1>6, <3>2 DEF Exact
    <3> QED
      BY <3>1, <3>4
  <2> QED
    BY <1>1, <1>4, <1>5, <2>1, <2>3, <2>4
<1>8. ASSUME NEW i \in 1 .. Len(T), NEW j \in 1 .. Len(T)
      PROVE  /\ T[i].url = T[j].url => i = j
             /\ i <= j => T[i].depth <= T[j].depth /\ T[j].depth <= T[i].depth + 1
  <2>1. PICK k \in 1 .. Len(Q), l \in 1 .. Len(Q) :
           k = i + 1 /\ l = j + 1 /\ T[i] = Q[k] /\ T[j] = Q[l]
    BY <1>3
  <2>2. (k = l => i = j) /\ (i <= j => k <= l)
    BY <2>1
  <2> QED
    BY <1>5, <2>1, <2>2
<1> QED
  BY <1>4, <1>7, <1>8 DEF QueueInv

\* what was asked for, and the pages, do not depend on the queue
LEMMA AskedGrows ==
    ASSUME CrawlTypes, AskedInv, NEW u \in crawl.visited \ Asked, fetched' = Append(fetched, u),
           crawl.visited \subseteq crawl'.visited
    PROVE  AskedInv' /\ Asked' = Asked \cup {u}
<1>1. u \in Url
  BY DEF CrawlTypes
<1>2. PICK n \in Nat : n = Len(fetched)
  BY DEF CrawlTypes
<1>3. /\ Asked' = Asked \cup {u} /\ Len(fetched') = n + 1
      /\ \A i \in 1 .. n : fetched'[i] = fetched[i]
      /\ fetched'[n + 1] = u
  BY <1>1, <1>2, AskedMore
<1>4. \A i \in 1 .. n : fetched[i] # u
  BY <1>2 DEF Asked, CrawlTypes
<1>5. \A i, j \in 1 .. n : fetched[i] = fetched[j] => i = j
  BY <1>2 DEF AskedInv
<1>6. \A i \in 1 .. (n + 1) : i \in 1 .. n \/ i = n + 1
  OBVIOUS
<1>7. \A i, j \in 1 .. (n + 1) : fetched'[i] = fetched'[j] => i = j
  BY <1>3, <1>4, <1>5, <1>6
<1> QED
  BY <1>3, <1>7 DEF AskedInv

\* a step that adds no page leaves what is said of the pages
LEMMA QuietPages ==
    ASSUME PagesInv, links' = links, crawl'.pages = crawl.pages, crawl'.visited = crawl.visited,
           crawl.stage # "none"
    PROVE  PagesInv'
<1>1. \A n : Within(n)' = Within(n)
  BY SamePages
<1>2. \A p : Exact(p) => Exact(p)'
  BY <1>1 DEF Exact
<1> QED
  BY <1>1, <1>2 DEF PagesInv

\* a round of the loop
LEMMA RoundInv == ASSUME CrawlInv, CrawlPage PROVE CrawlInv'
<1>1. /\ CrawlTypes /\ AskedInv /\ PagesInv /\ QueueInv
      /\ crawl.stage = "crawling" /\ crawl.queue # <<>> /\ Len(fetched) < MaxPages
      /\ links' = links
  BY DEF CrawlInv, CrawlPage
<1>2. PICK v : v = Head(crawl.queue)
  OBVIOUS
<1>3. PICK rest : rest = Tail(crawl.queue)
  OBVIOUS
<1>4. v \in Visits /\ rest \in Seq(Visits) /\ Len(crawl.queue) \in Nat \ {0} /\ v = crawl.queue[1]
  BY <1>1, <1>2, <1>3, HeadOfQueue DEF CrawlTypes
<1>5. v.url \in crawl.visited \ Asked /\ v.url \in Url
  BY <1>1, <1>4 DEF QueueInv, Visits
<1>6. NextUrl = v.url /\ MaxPages \in Nat /\ Len(fetched) \in Nat
  BY <1>1, <1>2, BrainIngestAssumption DEF NextUrl, CrawlTypes
<1>7. /\ Rest \in [stage : {"crawling"}, queue : Seq(Visits), visited : SUBSET Url,
                   pages : Seq(Visits)]
      /\ Rest.visited = crawl.visited /\ Rest.pages = crawl.pages /\ Rest.stage = crawl.stage
  BY <1>1, <1>3, <1>4 DEF Rest, CrawlTypes
<1>8. CASE UrlRefused
  <2>1. crawl' = Rest /\ fetched' = fetched
    BY <1>8 DEF UrlRefused
  <2>2. Asked' = Asked
    BY <2>1 DEF Asked
  <2>3. CrawlTypes'
    BY <1>1, <1>7, <2>1 DEF CrawlTypes
  <2>4. AskedInv'
    BY <1>1, <1>7, <2>1, <2>2 DEF AskedInv
  <2>5. PagesInv'
    BY <1>1, <1>7, <2>1, QuietPages
  <2>6. QueueInv'
    BY <1>1, <2>1, <2>2, ShorterQueue
  <2>7. EndInv'
    BY <1>1, <1>7, <2>1 DEF EndInv
  <2> QED
    BY <2>3, <2>4, <2>5, <2>6, <2>7 DEF CrawlInv
<1>9. CASE PageIsEmpty
  <2>1. crawl' = Rest /\ fetched' = Append(fetched, v.url)
    BY <1>6, <1>9 DEF PageIsEmpty
  <2>2. AskedInv' /\ Asked' = Asked \cup {v.url}
    BY <1>1, <1>5, <1>7, <2>1, AskedGrows
  <2>3. fetched' \in Seq(Url) /\ Len(fetched') <= MaxPages
    BY <1>1, <1>5, <1>6, <2>1, AskedMore
  <2>4. CrawlTypes'
    BY <1>1, <1>7, <2>1, <2>3 DEF CrawlTypes
  <2>5. PagesInv'
    BY <1>1, <1>7, <2>1, QuietPages
  <2>6. QueueInv'
    BY <1>1, <1>2, <2>1, <2>2, ShorterQueue
  <2>7. EndInv'
    BY <1>1, <1>7, <2>1 DEF EndInv
  <2> QED
    BY <2>2, <2>4, <2>5, <2>6, <2>7 DEF CrawlInv
<1>10. CASE PageHasContent
  <2>1. PICK found : Found(v, found) /\ Visited(v, rest, found)
    BY <1>1, <1>2, <1>3, <1>10, ContentStep
  <2>2. Takes(v, rest, found)
    BY <1>1, <1>2, <1>3, <1>4, <2>1 DEF Takes
  <2>3. PagesInv' /\ QueueInv'
    BY <2>2, ContentPages, ContentQueue
  <2>4. fetched' = Append(fetched, v.url) /\ crawl.visited \subseteq crawl'.visited
    BY <2>1 DEF Visited
  <2>5. AskedInv'
    BY <1>1, <1>5, <2>4, AskedGrows
  <2>6. fetched' \in Seq(Url) /\ Len(fetched') <= MaxPages
    BY <1>1, <1>5, <1>6, <2>4, AskedMore
  <2>7. rest \o found \in Seq(Visits) /\ Append(crawl.pages, v) \in Seq(Visits)
    BY <1>1, <1>4, <2>1 DEF Found, CrawlTypes
  <2>8. {found[i].url : i \in 1 .. Len(found)} \subseteq Url /\ crawl.visited \subseteq Url
    BY <1>1, <1>5, <2>1 DEF Found, CrawlTypes
  <2>9. CrawlTypes'
    BY <1>1, <2>1, <2>6, <2>7, <2>8 DEF CrawlTypes, Visited
  <2>10. EndInv'
    BY <1>1, <2>1 DEF EndInv, Visited
  <2> QED
    BY <2>3, <2>5, <2>9, <2>10 DEF CrawlInv
<1>11. CASE CrawlerFails
  <2>1. crawl' = [crawl EXCEPT !.stage = "failed"] /\ fetched' = Append(fetched, v.url)
    BY <1>6, <1>11 DEF CrawlerFails
  <2>2. /\ crawl'.stage = "failed" /\ crawl'.visited = crawl.visited
        /\ crawl'.pages = crawl.pages
    BY <1>1, <2>1 DEF CrawlTypes
  <2>3. AskedInv'
    BY <1>1, <1>5, <2>1, <2>2, AskedGrows
  <2>4. fetched' \in Seq(Url) /\ Len(fetched') <= MaxPages
    BY <1>1, <1>5, <1>6, <2>1, AskedMore
  <2>5. CrawlTypes'
    BY <1>1, <2>1, <2>4 DEF CrawlTypes
  <2>6. PagesInv'
    BY <1>1, <2>2, QuietPages
  <2> QED
    BY <2>2, <2>3, <2>5, <2>6 DEF CrawlInv, QueueInv, EndInv
<1> QED
  BY <1>8, <1>9, <1>10, <1>11 DEF CrawlPage

\* what the other steps may do to a crawl: end a stage of it
LEMMA StageInv ==
    ASSUME CrawlInv, links' = links, fetched' = fetched, crawl.stage # "none",
           NEW st \in {"failed", "ingesting", "reported"},
           crawl' = [crawl EXCEPT !.stage = st],
           st = "ingesting" => crawl.queue = <<>> \/ Len(fetched) >= MaxPages,
           st = "reported" => /\ crawl.queue = <<>> \/ Len(fetched) >= MaxPages
                              /\ stored' = Len(crawl.pages)
    PROVE  CrawlInv'
<1>1. CrawlTypes /\ AskedInv /\ PagesInv
  BY DEF CrawlInv
<1>2. /\ crawl'.stage = st /\ crawl'.visited = crawl.visited
      /\ crawl'.pages = crawl.pages /\ crawl'.queue = crawl.queue
  BY <1>1 DEF CrawlTypes
<1>3. CrawlTypes'
  BY <1>1 DEF CrawlTypes
<1>4. AskedInv'
  BY <1>1, <1>2 DEF AskedInv, Asked
<1>5. PagesInv'
  BY <1>1, <1>2, QuietPages
<1> QED
  BY <1>2, <1>3, <1>4, <1>5 DEF CrawlInv, QueueInv, EndInv

\* or nothing
LEMMA QuietCrawl ==
    ASSUME CrawlInv, links' = links, fetched' = fetched, crawl' = crawl,
           crawl.stage = "reported" => stored' = stored
    PROVE  CrawlInv'
<1>1. \A n : Within(n)' = Within(n)
  BY SamePages
<1>2. \A p : Exact(p) => Exact(p)'
  BY <1>1 DEF Exact
<1>3. CrawlTypes' /\ AskedInv' /\ EndInv'
  BY DEF CrawlInv, CrawlTypes, AskedInv, Asked, EndInv
<1>4. PagesInv'
  BY <1>1, <1>2 DEF CrawlInv, PagesInv
<1>5. QueueInv'
  BY <1>2 DEF CrawlInv, QueueInv, Asked
<1> QED
  BY <1>3, <1>4, <1>5 DEF CrawlInv

\* a crawl begins at the seed
LEMMA BeginInv == ASSUME CrawlInv, BeginCrawl PROVE CrawlInv'
<1>1. PICK s : s = [url |-> Seed, depth |-> 0]
  OBVIOUS
<1>2. s \in Visits /\ s.url = Seed /\ s.depth = 0 /\ Seed \in Url /\ MaxDepth \in Nat
  BY <1>1, BrainIngestAssumption DEF Visits
<1>3. /\ crawl' = [stage |-> "crawling", queue |-> <<s>>, visited |-> {Seed}, pages |-> <<>>]
      /\ fetched' = <<>> /\ links' = links /\ CrawlTypes
  BY <1>1 DEF BeginCrawl, CrawlInv
<1>4. CrawlTypes'
  <2>1. <<s>> \in Seq(Visits) /\ Len(fetched') = 0 /\ fetched' \in Seq(Url) /\ MaxPages \in Nat
    BY <1>2, <1>3, BrainIngestAssumption
  <2> QED
    BY <1>2, <1>3, <2>1 DEF CrawlTypes
<1>5. Asked' = {} /\ AskedInv'
  BY <1>3 DEF AskedInv, Asked
<1>6. PICK E : E = Extracted'
  OBVIOUS
<1>7. \A n : Within(n)' = Reached(links, E, n)
  BY <1>3, <1>6 DEF Within, Walks, Reached, Routes
<1>8. Within(0)' = {Seed} /\ {Seed} \subseteq Within(MaxDepth)'
  BY <1>2, <1>7, ReachedAtOnce, ReachedGrows
<1>9. PagesInv'
  BY <1>3, <1>8 DEF PagesInv
<1>10. QueueInv'
  <2>1. Exact(s)'
    BY <1>2, <1>8 DEF Exact
  <2>2. PICK Q : Q = <<s>> /\ Q = crawl'.queue
    BY <1>3
  <2>3. Len(Q) = 1 /\ Q[1] = s /\ \A i \in 1 .. Len(Q) : i = 1
    BY <2>2
  <2>4. Len(crawl'.pages) = 0
    BY <1>3
  <2> QED
    BY <1>2, <1>3, <1>5, <2>1, <2>2, <2>3, <2>4 DEF QueueInv
<1>11. EndInv'
  BY <1>3 DEF EndInv
<1> QED
  BY <1>4, <1>5, <1>9, <1>10, <1>11 DEF CrawlInv

\* every step keeps the invariant, which holds at first
LEMMA CrawlInvStep == CrawlInv /\ [BrainNext]_brainVars => CrawlInv'
<1> SUFFICES ASSUME CrawlInv, [BrainNext]_brainVars PROVE CrawlInv'
  OBVIOUS
<1>1. ASSUME CreateBrain \/ Upload \/ DeleteDoc \/ UNCHANGED brainVars PROVE CrawlInv'
  BY <1>1, QuietCrawl DEF CreateBrain, Upload, DeleteDoc, brainVars
<1>2. ASSUME EndCrawl PROVE CrawlInv'
  <2>1. PICK st \in {"failed", "ingesting"} : crawl' = [crawl EXCEPT !.stage = st]
    BY <1>2 DEF EndCrawl
  <2> QED
    BY <1>2, <2>1, StageInv DEF EndCrawl
<1>3. ASSUME IngestPage PROVE CrawlInv'
  <2>1. crawl.stage = "ingesting" /\ links' = links /\ fetched' = fetched
    BY <1>3 DEF IngestPage
  <2>2. CASE crawl' = crawl
    BY <2>1, <2>2, QuietCrawl
  <2>3. CASE crawl' = [crawl EXCEPT !.stage = "failed"]
    BY <2>1, <2>3, StageInv
  <2> QED
    BY <1>3, <2>2, <2>3 DEF IngestPage
<1>4. ASSUME Report PROVE CrawlInv'
  <2>1. crawl.queue = <<>> \/ Len(fetched) >= MaxPages
    BY <1>4 DEF Report, CrawlInv, EndInv
  <2> QED
    BY <1>4, <2>1, StageInv DEF Report
<1> QED
  BY <1>1, <1>2, <1>3, <1>4, BeginInv, RoundInv DEF BrainNext

\* at the start there is no crawl
LEMMA CrawlInvInit == BrainInit => CrawlInv
<1> SUFFICES ASSUME BrainInit PROVE CrawlInv
  OBVIOUS
<1>1. /\ crawl = [stage |-> "none", queue |-> <<>>, visited |-> {}, pages |-> <<>>]
      /\ fetched = <<>> /\ links \in Web
  BY DEF BrainInit, NoCrawl
<1>2. MaxPages \in Nat /\ Len(fetched) = 0 /\ Len(crawl.pages) = 0 /\ fetched \in Seq(Url)
  BY <1>1, BrainIngestAssumption
<1>3. CrawlTypes
  BY <1>1, <1>2, BrainIngestAssumption DEF CrawlTypes
<1> QED
  BY <1>1, <1>2, <1>3 DEF CrawlInv, AskedInv, Asked, PagesInv, QueueInv, EndInv

\* For any site, whatever is refused, empty or fails, in whatever order links are found: a crawl
\* asks for no URL twice and for no more than its cap, takes every page at its distance, nearer
\* ones first, leaves out none that is near enough, and reports what it has stored.
THEOREM CrawlsAreExactAlways == BrainSpec => []CrawlsAreExact
<1>1. CrawlInv => CrawlsAreExact
  <2> SUFFICES ASSUME CrawlInv PROVE CrawlsAreExact
    OBVIOUS
  <2>1. CrawlTypes /\ AskedInv /\ PagesInv /\ EndInv
    BY DEF CrawlInv
  <2>2. /\ DOMAIN fetched = 1 .. Len(fetched) /\ DOMAIN crawl.pages = 1 .. Len(crawl.pages)
        /\ MaxDepth \in Nat
    BY <2>1, BrainIngestAssumption DEF CrawlTypes
  <2>3. ASSUME NEW i \in 1 .. Len(crawl.pages)
        PROVE  LET p == crawl.pages[i]
               IN  /\ p.depth <= MaxDepth /\ p.url \in Within(p.depth)
                   /\ p.depth > 0 => p.url \notin Within(p.depth - 1)
                   /\ \A j \in 1 .. i : crawl.pages[j].depth <= p.depth
    <3>1. PICK p \in Visits : p = crawl.pages[i]
      BY <2>1, <2>2 DEF CrawlTypes
    <3>2. p.depth <= MaxDepth
      BY <2>2 DEF Visits
    <3>3. Exact(crawl.pages[i]) /\ \A j \in 1 .. i : crawl.pages[j].depth <= crawl.pages[i].depth
      BY <2>1 DEF PagesInv
    <3> QED
      BY <3>1, <3>2, <3>3 DEF Exact
  <2>4. crawl.stage \in {"ingesting", "reported"} => crawl.visited = Within(MaxDepth)
    <3>1. crawl.visited \subseteq Within(MaxDepth)
      BY <2>1 DEF PagesInv
    <3>2. MaxDepth \in 0 .. MaxDepth
      BY <2>2
    <3> QED
      BY <2>1, <3>1, <3>2, NearIsVisited
  <2>5. Len(fetched) <= MaxPages /\ Len(fetched) \in Nat /\ MaxPages \in Nat
    BY <2>1, BrainIngestAssumption DEF CrawlTypes
  <2>6. (crawl.stage \in {"ingesting", "reported"} /\ Len(fetched) < MaxPages)
            => crawl.queue = <<>>
    BY <2>1, <2>5 DEF EndInv
  <2>7. crawl.stage = "reported" => stored = Len(crawl.pages)
    BY <2>1 DEF EndInv
  <2>8. \A i, j \in DOMAIN fetched : fetched[i] = fetched[j] => i = j
    BY <2>1, <2>2 DEF AskedInv
  <2> QED
    BY <2>2, <2>3, <2>4, <2>5, <2>6, <2>7, <2>8 DEF CrawlsAreExact
<1> QED
  BY <1>1, CrawlInvInit, CrawlInvStep, PTL DEF BrainSpec

-----------------------------------------------------------------------------
(* The calendar: days before a month.                                       *)

\* a part of the recursive function Before, up to the month n
UpTo(n, g) == g = [m \in 0 .. n |-> IF m <= 1 THEN 0 ELSE g[m - 1] + MonthLength[m - 1]]

\* two of them agree
LEMMA PartsAgree ==
    ASSUME NEW n \in Nat, NEW k \in Nat, NEW g, NEW h, UpTo(n, g), UpTo(k, h),
           NEW m \in 0 .. n, m \in 0 .. k
    PROVE  g[m] = h[m]
<1>1. /\ \A i \in 0 .. n : g[i] = IF i <= 1 THEN 0 ELSE g[i - 1] + MonthLength[i - 1]
      /\ \A i \in 0 .. k : h[i] = IF i <= 1 THEN 0 ELSE h[i - 1] + MonthLength[i - 1]
  BY DEF UpTo
<1> DEFINE S == {i \in 0 .. m : g[i] # h[i]}
<1>2. SUFFICES ASSUME S # {} PROVE FALSE
  OBVIOUS
<1>3. S \in SUBSET Nat
  OBVIOUS
<1>4. PICK i \in S : \A j \in S : i <= j
  BY <1>2, <1>3, LeastNumber
<1>5. i \in 0 .. m /\ i \in 0 .. n /\ i \in 0 .. k /\ g[i] # h[i]
  OBVIOUS
<1>6. i > 1
  BY <1>1, <1>5
<1>7. i - 1 \in 0 .. m /\ ~ i <= i - 1
  BY <1>5, <1>6
<1>8. g[i - 1] = h[i - 1]
  BY <1>4, <1>7
<1> QED
  BY <1>1, <1>5, <1>6, <1>8

\* there is one up to each month
LEMMA PartsExist == \A n \in Nat : \E g : UpTo(n, g)
<1> DEFINE S == {n \in Nat : ~ \E g : UpTo(n, g)}
<1>1. SUFFICES ASSUME S # {} PROVE FALSE
  OBVIOUS
<1>2. PICK n \in S : \A j \in S : n <= j
  BY <1>1, LeastNumber
<1>3. n \in Nat /\ ~ \E g : UpTo(n, g)
  OBVIOUS
<1>4. CASE n = 0
  <2>1. UpTo(0, [m \in 0 .. 0 |-> 0])
    BY DEF UpTo
  <2> QED
    BY <1>3, <1>4, <2>1
<1>5. CASE n # 0
  <2>1. n - 1 \in Nat /\ n - 1 \notin S
    BY <1>2, <1>3, <1>5
  <2>2. PICK g : UpTo(n - 1, g)
    BY <2>1
  <2>3. \A m \in 0 .. (n - 1) : g[m] = IF m <= 1 THEN 0 ELSE g[m - 1] + MonthLength[m - 1]
    BY <2>2 DEF UpTo
  <2> DEFINE Last == IF n <= 1 THEN 0 ELSE g[n - 1] + MonthLength[n - 1]
             h == [m \in 0 .. n |-> IF m = n THEN Last ELSE g[m]]
  <2>4. ASSUME NEW m \in 0 .. n
        PROVE  h[m] = IF m <= 1 THEN 0 ELSE h[m - 1] + MonthLength[m - 1]
    <3>1. m > 1 => m - 1 \in 0 .. n /\ m - 1 # n /\ h[m - 1] = g[m - 1]
      OBVIOUS
    <3>2. CASE m = n
      <4>1. h[m] = Last
        BY <3>2
      <4> QED
        BY <3>1, <3>2, <4>1
    <3>3. CASE m # n
      <4>1. h[m] = g[m] /\ m \in 0 .. (n - 1)
        BY <3>3
      <4> QED
        BY <2>3, <3>1, <4>1
    <3> QED
      BY <3>2, <3>3
  <2>5. h = [m \in 0 .. n |-> h[m]]
    OBVIOUS
  <2> HIDE DEF h
  <2>6. h = [m \in 0 .. n |-> IF m <= 1 THEN 0 ELSE h[m - 1] + MonthLength[m - 1]]
    BY <2>4, <2>5
  <2>7. UpTo(n, h)
    BY <2>6 DEF UpTo
  <2> QED
    BY <1>3, <2>7
<1> QED
  BY <1>4, <1>5

\* so that the recursion is well-defined
LEMMA BeforeMonths ==
    \A m \in Nat : Before[m] = IF m <= 1 THEN 0 ELSE Before[m - 1] + MonthLength[m - 1]
<1> DEFINE Part(n) == CHOOSE g : UpTo(n, g)
           f == [m \in Nat |-> Part(m)[m]]
<1>1. \A n \in Nat : UpTo(n, Part(n))
  BY PartsExist
<1>2. ASSUME NEW m \in Nat PROVE f[m] = IF m <= 1 THEN 0 ELSE f[m - 1] + MonthLength[m - 1]
  <2> HIDE DEF Part
  <2>1. Part(m)[m] = IF m <= 1 THEN 0 ELSE Part(m)[m - 1] + MonthLength[m - 1]
    BY <1>1 DEF UpTo
  <2>2. ASSUME m > 1 PROVE Part(m)[m - 1] = Part(m - 1)[m - 1]
    <3>1. m - 1 \in Nat /\ m - 1 \in 0 .. m /\ m - 1 \in 0 .. (m - 1)
      BY <2>2
    <3> QED
      BY <1>1, <3>1, PartsAgree
  <2>3. f[m] = Part(m)[m] /\ (m > 1 => f[m - 1] = Part(m - 1)[m - 1])
    OBVIOUS
  <2> HIDE DEF f
  <2> QED
    BY <2>1, <2>2, <2>3
<1>3. f = [m \in Nat |-> f[m]]
  OBVIOUS
<1> HIDE DEF f
<1>4. f = [m \in Nat |-> IF m <= 1 THEN 0 ELSE f[m - 1] + MonthLength[m - 1]]
  BY <1>2, <1>3
<1>5. Before = [m \in Nat |-> IF m <= 1 THEN 0 ELSE Before[m - 1] + MonthLength[m - 1]]
  BY <1>4 DEF Before
<1> QED
  BY <1>5

\* the months of the calendar
LastMonth == Len(MonthLength)

\* their lengths, and the weekday of the first day
LEMMA Months ==
    /\ LastMonth \in Nat /\ DOMAIN MonthLength = 1 .. LastMonth
    /\ \A m \in 1 .. LastMonth : MonthLength[m] \in 28 .. 31
    /\ FirstWeekday \in 0 .. 6
BY RecurrenceAssumption DEF LastMonth, Weekday

\* a month has at least 28 days and at most 31
LEMMA BeforeBounds ==
    ASSUME NEW a \in 1 .. (LastMonth + 1), NEW b \in a .. (LastMonth + 1)
    PROVE  /\ Before[a] \in Nat /\ Before[b] \in Nat
           /\ Before[a] <= Before[b] /\ Before[b] <= Before[a] + 31 * (b - a)
<1> USE Months
<1>1. \A m \in 1 .. (LastMonth + 1) : Before[m] \in Nat
  <2> DEFINE S == {m \in 1 .. (LastMonth + 1) : Before[m] \notin Nat}
  <2>1. SUFFICES ASSUME S # {} PROVE FALSE
    OBVIOUS
  <2>2. S \in SUBSET Nat
    OBVIOUS
  <2>3. PICK m \in S : \A j \in S : m <= j
    BY <2>1, <2>2, LeastNumber
  <2>4. m \in 1 .. (LastMonth + 1) /\ Before[m] \notin Nat /\ m \in Nat
    OBVIOUS
  <2>5. m > 1
    BY <2>4, BeforeMonths
  <2>6. m - 1 \in 1 .. (LastMonth + 1) /\ m - 1 \in 1 .. LastMonth /\ ~ m <= m - 1
    BY <2>4, <2>5
  <2>7. Before[m - 1] \in Nat
    BY <2>3, <2>6
  <2>8. Before[m] = Before[m - 1] + MonthLength[m - 1]
    BY <2>4, <2>5, BeforeMonths
  <2> QED
    BY <2>4, <2>6, <2>7, <2>8
<1>2. a \in 1 .. (LastMonth + 1) /\ b \in 1 .. (LastMonth + 1) /\ a <= b /\ a \in Nat /\ b \in Nat
  OBVIOUS
<1> DEFINE Good(c) == Before[a] <= Before[c] /\ Before[c] <= Before[a] + 31 * (c - a)
           S == {c \in a .. b : ~ Good(c)}
<1>3. SUFFICES ASSUME S # {} PROVE FALSE
  <2>1. b \in a .. b
    BY <1>2
  <2> QED
    BY <1>1, <1>2, <1>3, <2>1
<1>4. S \in SUBSET Nat
  BY <1>2
<1>5. PICK c \in S : \A j \in S : c <= j
  BY <1>3, <1>4, LeastNumber
<1>6. c \in a .. b /\ ~ Good(c) /\ c \in Nat /\ c \in 1 .. (LastMonth + 1)
  BY <1>2
<1>7. c # a
  BY <1>1, <1>2, <1>6
<1>8. /\ c - 1 \in a .. b /\ c > 1 /\ c - 1 \in 1 .. LastMonth
      /\ c - 1 \in 1 .. (LastMonth + 1) /\ ~ c <= c - 1
  BY <1>2, <1>6, <1>7
<1>9. Good(c - 1)
  BY <1>5, <1>8
<1>10. Before[c] = Before[c - 1] + MonthLength[c - 1]
  BY <1>6, <1>8, BeforeMonths
<1>11. PICK x \in Nat, y \in Nat, l \in 28 .. 31 :
          x = Before[a] /\ y = Before[c - 1] /\ l = MonthLength[c - 1]
  BY <1>1, <1>2, <1>8
<1>12. x <= y /\ y <= x + 31 * (c - 1 - a) /\ Before[c] = y + l
  BY <1>9, <1>10, <1>11
<1>13. PICK p \in Int, q \in Int : p = 31 * (c - 1 - a) /\ q = 31 * (c - a) /\ q = p + 31
  BY <1>2, <1>6
<1>14. x <= y /\ y <= x + p /\ q = p + 31
  BY <1>12, <1>13
<1>15. x <= y + l /\ y + l <= x + q
  BY <1>14
<1> QED
  BY <1>6, <1>11, <1>12, <1>13, <1>15

-----------------------------------------------------------------------------
(* The calendar: dates.                                                     *)

\* a date of the calendar
Valid(d) == d \in Date /\ d.day <= MonthLength[d.month]

\* the calendar ends with its last month
LEMMA LastDayIs ==
    ASSUME LastMonth > 0
    PROVE  LastDay = Before[LastMonth + 1] /\ LastDay \in Nat
<1>1. /\ LastMonth + 1 \in Nat /\ LastMonth + 1 > 1 /\ LastMonth \in 1 .. (LastMonth + 1)
      /\ LastMonth + 1 \in LastMonth .. (LastMonth + 1)
  BY Months
<1>2. Before[LastMonth + 1] = Before[LastMonth] + MonthLength[LastMonth]
  BY <1>1, BeforeMonths
<1> QED
  BY <1>1, <1>2, BeforeBounds DEF LastDay, LastMonth

\* the day number of a date
LEMMA NumberOfDate ==
    ASSUME NEW d, Valid(d)
    PROVE  /\ d.month \in 1 .. LastMonth /\ d.day \in 1 .. 31 /\ LastMonth > 0
           /\ Before[d.month] \in Nat /\ DayNumber(d) \in Nat /\ DayNumber(d) > 0
           /\ DayNumber(d) = Before[d.month] + d.day
<1>1. d.month \in 1 .. LastMonth /\ d.day \in 1 .. 31
  BY Months DEF Valid, Date
<1>2. d.month \in 1 .. (LastMonth + 1) /\ d.month \in d.month .. (LastMonth + 1) /\ LastMonth > 0
  BY <1>1, Months
<1>3. Before[d.month] \in Nat
  BY <1>2, BeforeBounds
<1> QED
  BY <1>1, <1>2, <1>3 DEF DayNumber

\* every day of the calendar has a date, with its number
LEMMA DateOfNumber ==
    ASSUME LastMonth > 0, NEW n \in 1 .. LastDay
    PROVE  Valid(DateOf(n)) /\ DayNumber(DateOf(n)) = n
<1>1. LastDay = Before[LastMonth + 1] /\ LastDay \in Nat /\ LastMonth \in Nat /\ n \in Nat /\ n > 0
  BY LastDayIs, Months
<1>2. \A m \in 1 .. LastMonth : MonthLength[m] \in 28 .. 31 /\ Before[m] \in Nat
                        /\ Before[m + 1] = Before[m] + MonthLength[m]
  <2> TAKE m \in 1 .. LastMonth
  <2>1. m \in 1 .. (LastMonth + 1) /\ m \in m .. (LastMonth + 1)
    BY <1>1
  <2>2. PICK next \in Nat : next = m + 1 /\ ~ next <= 1 /\ next - 1 = m
    BY <1>1
  <2>3. Before[next] = Before[m] + MonthLength[m]
    BY <2>2, BeforeMonths
  <2> QED
    BY <2>1, <2>2, <2>3, Months, BeforeBounds
<1> DEFINE S == {m \in 1 .. LastMonth : n <= Before[m + 1]}
<1>3. S \in SUBSET Nat /\ S # {}
  <2>1. LastMonth \in S
    BY <1>1
  <2> QED
    BY <2>1
<1>4. PICK k \in S : \A j \in S : k <= j
  BY <1>3, LeastNumber
<1>5. k \in 1 .. LastMonth /\ n <= Before[k] + MonthLength[k]
  BY <1>2
<1>6. Before[k] < n
  <2>1. CASE k = 1
    <3>1. Before[1] = 0
      BY BeforeMonths
    <3> QED
      BY <1>1, <2>1, <3>1
  <2>2. CASE k # 1
    <3>1. k - 1 \in 1 .. LastMonth /\ ~ k <= k - 1 /\ k - 1 + 1 = k
      BY <1>1, <1>5, <2>2
    <3>2. ~ n <= Before[k]
      BY <1>4, <3>1
    <3> QED
      BY <1>1, <1>2, <1>5, <3>2
  <2> QED
    BY <2>1, <2>2
<1>7. PICK m : m = CHOOSE i \in DOMAIN MonthLength :
                   Before[i] < n /\ n <= Before[i] + MonthLength[i]
  OBVIOUS
<1>8. m \in 1 .. LastMonth /\ Before[m] < n /\ n <= Before[m] + MonthLength[m]
  BY <1>5, <1>6, <1>7, Months
<1>9. DateOf(n) = [month |-> m, day |-> n - Before[m]]
  BY <1>7 DEF DateOf
<1>10. n - Before[m] \in 1 .. 31 /\ n - Before[m] <= MonthLength[m]
       /\ Before[m] + (n - Before[m]) = n
  BY <1>1, <1>2, <1>8
<1>11. DateOf(n) \in Date
  BY <1>8, <1>9, <1>10, Months DEF Date
<1>12. DateOf(n).month = m /\ DateOf(n).day = n - Before[m]
  BY <1>9
<1> QED
  BY <1>10, <1>11, <1>12 DEF Valid, DayNumber

\* a month has room for the next due time
LEMMA MonthsAhead ==
    ASSUME NEW d, Valid(d), NEW k \in Nat \ {0}, DayNumber(d) + 31 * k <= LastDay
    PROVE  d.month + k \in 1 .. LastMonth
<1>1. /\ d.month \in 1 .. LastMonth /\ d.day \in 1 .. 31 /\ LastMonth > 0 /\ Before[d.month] \in Nat
      /\ DayNumber(d) = Before[d.month] + d.day
  BY NumberOfDate
<1>2. LastDay = Before[LastMonth + 1] /\ LastMonth \in Nat
  BY <1>1, LastDayIs, Months
<1>3. PICK m \in 1 .. (LastMonth + 1), e \in 1 .. 31 : m = d.month /\ e = d.day
  BY <1>1, <1>2
<1>4. PICK end \in m .. (LastMonth + 1) : end = LastMonth + 1
  BY <1>2
<1>5. Before[m] \in Nat /\ Before[end] \in Nat /\ Before[end] <= Before[m] + 31 * (end - m)
  BY BeforeBounds
<1>6. PICK b \in Nat, t \in Nat : b = Before[m] /\ t = Before[end]
  BY <1>5
<1>7. b + e + 31 * k <= t /\ t <= b + 31 * (end - m)
  BY <1>1, <1>2, <1>3, <1>4, <1>5, <1>6
<1>8. m + k < end
  BY <1>2, <1>3, <1>4, <1>6, <1>7
<1> QED
  BY <1>2, <1>3, <1>4, <1>8

-----------------------------------------------------------------------------
(* The calendar: weekly recurrences.                                        *)

\* one of seven days in a row has the weekday w
LEMMA SevenDays ==
    ASSUME NEW n \in Nat, NEW w \in Weekday
    PROVE  \E j \in 1 .. 7 : WeekdayOf(n + j) = w
<1>1. PICK t \in Int : t = FirstWeekday + n - 1
  BY Months
<1>2. PICK r \in 0 .. 6, q \in Int : t = 7 * q + r
  <2>1. t % 7 \in 0 .. 6 /\ t = 7 * (t \div 7) + (t % 7) /\ t \div 7 \in Int
    OBVIOUS
  <2> QED
    BY <2>1
<1>3. w \in 0 .. 6
  BY DEF Weekday
<1>4. PICK j \in 1 .. 7 : j = IF w > r THEN w - r ELSE w - r + 7
  BY <1>3
<1>5. FirstWeekday + (n + j) - 1 = t + j
  BY <1>1, Months
<1>6. (t + j) % 7 = w
  <2>1. CASE w > r
    <3>1. t + j = 7 * q + w
      BY <1>2, <1>3, <1>4, <2>1
    <3> QED
      BY <1>3, <3>1
  <2>2. CASE ~ (w > r)
    <3>1. t + j = 7 * (q + 1) + w
      BY <1>2, <1>3, <1>4, <2>2
    <3> QED
      BY <1>3, <3>1
  <2> QED
    BY <2>1, <2>2
<1> QED
  BY <1>5, <1>6 DEF WeekdayOf

\* advance_weekly stops at the first of the weekdays, which is at most seven days away
LEMMA WeeklyStops ==
    ASSUME NEW n \in Nat, NEW k \in Nat \ {0}, NEW W \in SUBSET Weekday, W # {}
    PROVE  \E j \in 1 .. 7 :
               /\ AdvanceWeekly(n, k, W) = n + j /\ WeekdayOf(n + j) \in W
               /\ \A i \in 1 .. (j - 1) : WeekdayOf(n + i) \notin W
<1> DEFINE rounds == 7 * k + 1
           stops == {i \in 1 .. rounds : WeekdayOf(n + i) \in W \/ i = rounds}
<1>1. PICK w \in Weekday : w \in W
  OBVIOUS
<1>2. PICK s \in 1 .. 7 : WeekdayOf(n + s) = w
  BY SevenDays
<1>3. rounds \in Nat /\ rounds > 7
  OBVIOUS
<1>4. s \in stops /\ stops \in SUBSET Nat
  BY <1>1, <1>2, <1>3
<1>5. \E j \in stops : \A i \in stops : j <= i
  BY <1>4, LeastNumber
<1>6. PICK j : j = CHOOSE x \in stops : \A i \in stops : x <= i
  OBVIOUS
<1>7. j \in stops /\ \A i \in stops : j <= i
  BY <1>5, <1>6
<1>8. j \in 1 .. 7 /\ j # rounds
  BY <1>2, <1>3, <1>4, <1>7
<1>9. WeekdayOf(n + j) \in W
  BY <1>7, <1>8
<1>10. ASSUME NEW i \in 1 .. (j - 1) PROVE WeekdayOf(n + i) \notin W
  <2>1. i \in 1 .. rounds /\ ~ j <= i
    BY <1>3, <1>8
  <2> QED
    BY <1>7, <2>1
<1>11. AdvanceWeekly(n, k, W) = n + j
  BY <1>6 DEF AdvanceWeekly
<1> QED
  BY <1>8, <1>9, <1>10, <1>11

-----------------------------------------------------------------------------
(* The calendar: the inductive invariant.                                   *)

\* b follows the due time a of the recurrence r with the interval k
Follows(r, k, a, b) ==
    /\ r.repeat = "monthly" => b.month = a.month + k
    /\ r.repeat = "weekly" /\ r.weekdays # {} =>
           {n \in Between(a, b) : WeekdayOf(n) \in r.weekdays} = {DayNumber(b)}
    /\ r.repeat = "daily" => DayNumber(b) - DayNumber(a) = k
    /\ r.repeat = "weekly" /\ r.weekdays = {} => DayNumber(b) - DayNumber(a) = k * 7

\* f[i] is the first day, clamped to the months since
Clamped(f, i) ==
    /\ f[i].day \in {f[1].day} \cup {MonthLength[f[j].month] : j \in 1 .. i}
    /\ f[i].day <= f[1].day
    /\ \A j \in 1 .. i : f[i].day <= MonthLength[f[j].month]

\* the due times are dates of the calendar that follow each other
CalendarInv ==
    /\ rule \in Rule
    /\ firings \in Seq(Date) /\ Len(firings) > 0
    /\ \A i \in 1 .. Len(firings) : Valid(firings[i])
    /\ rule.repeat = "monthly" => \A i \in 1 .. Len(firings) : Clamped(firings, i)
    /\ \A i \in 2 .. Len(firings) : Follows(rule, Interval, firings[i - 1], firings[i])

\* the interval that counts
LEMMA Intervals ==
    ASSUME CalendarInv
    PROVE  /\ Interval \in Nat \ {0} /\ rule.repeat \in {"daily", "weekly", "monthly"}
           /\ rule.weekdays \in SUBSET Weekday
<1>1. rule \in [repeat : {"daily", "weekly", "monthly"}, interval : Int, weekdays : SUBSET Weekday]
  BY RecurrenceAssumption DEF CalendarInv
<1> QED
  BY <1>1 DEF Interval

\* the next due time
NextDue ==
    CASE rule.repeat = "daily" -> DateOf(DayNumber(Due) + Interval)
      [] rule.repeat = "weekly" -> DateOf(AdvanceWeekly(DayNumber(Due), Interval, rule.weekdays))
      [] rule.repeat = "monthly" -> AdvanceMonthly(Due, Interval)

\* it is a date of the calendar and follows the last one
LEMMA NextFollows ==
    ASSUME CalendarInv, ~ Ends(Due), NEW b, b = NextDue
    PROVE  /\ Valid(b)
           /\ Follows(rule, Interval, Due, b)
           /\ rule.repeat = "monthly" =>
                  b.day = IF Due.day <= MonthLength[b.month] THEN Due.day
                          ELSE MonthLength[b.month]
<1>1. PICK a : a = Due
  OBVIOUS
<1>2. Valid(a)
  BY <1>1 DEF CalendarInv, Due
<1>3. /\ a.month \in 1 .. LastMonth /\ a.day \in 1 .. 31 /\ LastMonth > 0 /\ DayNumber(a) \in Nat
      /\ DayNumber(a) > 0
  BY <1>2, NumberOfDate
<1>4. PICK k \in Nat \ {0} : k = Interval
  BY Intervals
<1>5. PICK n \in Nat : n = DayNumber(a) /\ n > 0
  BY <1>3
<1>6. n + 31 * k <= LastDay /\ LastDay \in Nat
  BY <1>1, <1>3, <1>4, <1>5, LastDayIs DEF Ends
<1>7. rule.weekdays \in SUBSET Weekday
  BY Intervals
<1>8. CASE rule.repeat = "daily"
  <2>1. n + k \in 1 .. LastDay
    BY <1>5, <1>6
  <2>2. b = DateOf(n + k)
    BY <1>1, <1>4, <1>5, <1>8 DEF NextDue
  <2>3. Valid(b) /\ DayNumber(b) = n + k
    BY <1>3, <2>1, <2>2, DateOfNumber
  <2>4. n + k - n = k
    OBVIOUS
  <2> QED
    BY <1>1, <1>4, <1>5, <1>8, <2>3, <2>4 DEF Follows
<1>9. CASE rule.repeat = "weekly" /\ rule.weekdays = {}
  <2>1. n + 7 * k \in 1 .. LastDay
    BY <1>5, <1>6
  <2>2. b = DateOf(n + 7 * k)
    BY <1>1, <1>4, <1>5, <1>9 DEF NextDue, AdvanceWeekly
  <2>3. Valid(b) /\ DayNumber(b) = n + 7 * k
    BY <1>3, <2>1, <2>2, DateOfNumber
  <2>4. n + 7 * k - n = k * 7
    OBVIOUS
  <2> QED
    BY <1>1, <1>4, <1>5, <1>9, <2>3, <2>4 DEF Follows
<1>10. CASE rule.repeat = "weekly" /\ rule.weekdays # {}
  <2>1. PICK j \in 1 .. 7 : /\ AdvanceWeekly(n, k, rule.weekdays) = n + j
                            /\ WeekdayOf(n + j) \in rule.weekdays
                            /\ \A i \in 1 .. (j - 1) : WeekdayOf(n + i) \notin rule.weekdays
    BY <1>7, <1>10, WeeklyStops
  <2>2. n + j \in 1 .. LastDay
    BY <1>5, <1>6
  <2>3. b = DateOf(n + j)
    BY <1>1, <1>4, <1>5, <1>10, <2>1 DEF NextDue
  <2>4. Valid(b) /\ DayNumber(b) = n + j
    BY <1>3, <2>2, <2>3, DateOfNumber
  <2>5. ASSUME NEW x \in n + 1 .. n + j, x # n + j PROVE WeekdayOf(x) \notin rule.weekdays
    <3>1. PICK i \in 1 .. (j - 1) : x = n + i
      <4>1. x - n \in 1 .. (j - 1) /\ x = n + (x - n)
        BY <2>5
      <4> QED
        BY <4>1
    <3> QED
      BY <2>1, <3>1
  <2>6. {x \in n + 1 .. n + j : WeekdayOf(x) \in rule.weekdays} = {n + j}
    <3>1. n + j \in n + 1 .. n + j
      OBVIOUS
    <3> QED
      BY <2>1, <2>5, <3>1
  <2>7. Between(Due, b) = n + 1 .. n + j
    BY <1>1, <1>5, <2>4 DEF Between
  <2> QED
    BY <1>10, <2>4, <2>6, <2>7 DEF Follows
<1>11. CASE rule.repeat = "monthly"
  <2>1. a.month + k \in 1 .. LastMonth
    BY <1>2, <1>5, <1>6, MonthsAhead
  <2>2. PICK m \in 1 .. LastMonth : m = a.month + k
    BY <2>1
  <2>3. b = [month |-> m, day |-> IF a.day <= MonthLength[m] THEN a.day ELSE MonthLength[m]]
    BY <1>1, <1>4, <1>11, <2>2 DEF NextDue, AdvanceMonthly
  <2>4. MonthLength[m] \in 28 .. 31 /\ m \in DOMAIN MonthLength
    BY Months
  <2>5. PICK d : d = IF a.day <= MonthLength[m] THEN a.day ELSE MonthLength[m]
    OBVIOUS
  <2>6. d \in 1 .. 31 /\ d <= MonthLength[m]
    BY <1>3, <2>4, <2>5
  <2>7. b.month = m /\ b.day = d
    BY <2>3, <2>5
  <2>8. Valid(b)
    BY <2>3, <2>4, <2>5, <2>6 DEF Valid, Date
  <2> QED
    BY <1>1, <1>4, <1>11, <2>2, <2>5, <2>7, <2>8 DEF Follows
<1> QED
  BY <1>8, <1>9, <1>10, <1>11, Intervals

\* at the start the first due time is a date of the calendar
LEMMA CalendarInvInit == RecurrenceInit => CalendarInv
<1>1. SUFFICES ASSUME RecurrenceInit PROVE CalendarInv
  OBVIOUS
<1>2. PICK d \in FirstDue : firings = <<d>>
  BY <1>1 DEF RecurrenceInit
<1>3. Valid(d) /\ d \in Date
  BY RecurrenceAssumption DEF Valid
<1>4. /\ firings \in Seq(Date) /\ Len(firings) = 1 /\ firings[1] = d
      /\ \A i \in 1 .. Len(firings) : firings[i] = d /\ i = 1
      /\ ~ \E i \in 2 .. Len(firings) : TRUE
  BY <1>2, <1>3
<1>5. d.day \in 1 .. 31 /\ d.day <= MonthLength[d.month]
  BY <1>3 DEF Valid, Date
<1>6. Clamped(firings, 1)
  <2>1. \A j \in 1 .. 1 : firings[j] = d /\ firings[1] = d
    BY <1>4
  <2>2. d.day <= d.day
    BY <1>5
  <2> QED
    BY <1>5, <2>1, <2>2 DEF Clamped
<1> QED
  BY <1>1, <1>3, <1>4, <1>6 DEF CalendarInv, RecurrenceInit

\* the next due time of a monthly recurrence is the first one, clamped to every month since
LEMMA NextIsClamped ==
    ASSUME CalendarInv, rule.repeat = "monthly", NEW b, Valid(b), NEW f,
           f = Append(firings, b),
           b.day = IF Due.day <= MonthLength[b.month] THEN Due.day ELSE MonthLength[b.month]
    PROVE  Clamped(f, Len(f))
<1>1. PICK n \in Nat : n = Len(firings) /\ n > 0
  BY DEF CalendarInv
<1>2. b \in Date /\ firings \in Seq(Date)
  BY DEF Valid, CalendarInv
<1>3. /\ Len(f) = n + 1 /\ f[n + 1] = b
      /\ \A i \in 1 .. n : f[i] = firings[i]
  BY <1>1, <1>2
<1>4. PICK last \in Date : last = Due /\ last = firings[n]
  BY <1>1, <1>2 DEF Due
<1>5. Clamped(firings, n)
  BY <1>1 DEF CalendarInv
<1>6. PICK first \in 1 .. 31 : first = firings[1].day /\ first = f[1].day
  <2>1. firings[1] \in Date /\ f[1] = firings[1]
    BY <1>1, <1>2, <1>3
  <2> QED
    BY <2>1 DEF Date
<1>7. /\ last.day \in {first} \cup {MonthLength[firings[j].month] : j \in 1 .. n}
      /\ last.day <= first
      /\ \A j \in 1 .. n : last.day <= MonthLength[firings[j].month]
  BY <1>4, <1>5, <1>6 DEF Clamped
<1>8. PICK l \in 28 .. 31 : l = MonthLength[b.month]
  BY NumberOfDate, Months
<1>9. last.day \in 1 .. 31 /\ b.day = IF last.day <= l THEN last.day ELSE l
  BY <1>4, <1>8 DEF Date
<1>10. \A j \in 1 .. n : MonthLength[firings[j].month] \in 28 .. 31
  <2> TAKE j \in 1 .. n
  <2>1. PICK d : d = firings[j]
    OBVIOUS
  <2>2. Valid(d)
    BY <1>1, <2>1 DEF CalendarInv
  <2>3. d.month \in 1 .. LastMonth
    BY <2>2, NumberOfDate
  <2> QED
    BY <2>1, <2>3, Months
<1>11. b.day \in {first} \cup {MonthLength[f[j].month] : j \in 1 .. (n + 1)}
  <2>1. CASE last.day <= l
    <3>1. b.day = last.day
      BY <1>9, <2>1
    <3>2. CASE last.day = first
      BY <3>1, <3>2
    <3>3. CASE last.day # first
      <4>1. PICK j \in 1 .. n : last.day = MonthLength[firings[j].month]
        BY <1>7, <3>3
      <4>2. j \in 1 .. (n + 1) /\ f[j] = firings[j]
        BY <1>1, <1>3
      <4> QED
        BY <3>1, <4>1, <4>2
    <3> QED
      BY <3>2, <3>3
  <2>2. CASE ~ last.day <= l
    <3>1. b.day = MonthLength[f[n + 1].month] /\ n + 1 \in 1 .. (n + 1)
      BY <1>1, <1>3, <1>8, <1>9, <2>2
    <3> QED
      BY <3>1
  <2> QED
    BY <2>1, <2>2
<1>12. b.day <= first
  <2>1. PICK t \in 1 .. 31 : t = last.day
    BY <1>9
  <2>2. PICK d \in 1 .. 31 : d = IF t <= l THEN t ELSE l
    OBVIOUS
  <2>3. d = b.day
    BY <1>9, <2>1, <2>2
  <2>4. t <= first
    BY <1>7, <2>1
  <2>5. d <= t
    <3>1. CASE t <= l
      BY <2>2, <3>1
    <3>2. CASE ~ t <= l
      <4>1. d = l
        BY <2>2, <3>2
      <4> QED
        BY <3>2, <4>1
    <3> QED
      BY <3>1, <3>2
  <2>6. d <= first
    BY <2>4, <2>5
  <2> QED
    BY <2>3, <2>6
<1>13. ASSUME NEW j \in 1 .. (n + 1) PROVE b.day <= MonthLength[f[j].month]
  <2>1. CASE j = n + 1
    BY <1>3, <1>8, <1>9, <2>1
  <2>2. CASE j # n + 1
    <3>1. j \in 1 .. n
      BY <1>1, <2>2
    <3>2. PICK e \in 28 .. 31 : e = MonthLength[firings[j].month]
      BY <1>10, <3>1
    <3>3. last.day <= e /\ f[j] = firings[j]
      BY <1>3, <1>7, <3>1, <3>2
    <3>4. b.day <= e
      <4>1. PICK t \in 1 .. 31 : t = last.day
        BY <1>9
      <4>2. PICK d \in 1 .. 31 : d = IF t <= l THEN t ELSE l
        OBVIOUS
      <4>3. d = b.day
        BY <1>9, <4>1, <4>2
      <4>4. t <= e
        BY <3>3, <4>1
      <4>5. d <= t
        <5>1. CASE t <= l
          BY <4>2, <5>1
        <5>2. CASE ~ t <= l
          <6>1. d = l
            BY <4>2, <5>2
          <6> QED
            BY <5>2, <6>1
        <5> QED
          BY <5>1, <5>2
      <4>6. d <= e
        BY <4>4, <4>5
      <4> QED
        BY <4>3, <4>6
    <3> QED
      BY <3>2, <3>3, <3>4
  <2> QED
    BY <2>1, <2>2
<1> QED
  BY <1>3, <1>6, <1>11, <1>12, <1>13 DEF Clamped

\* a firing appends the next due time
LEMMA CalendarInvStep == CalendarInv /\ [RecurrenceNext]_recurrenceVars => CalendarInv'
<1>1. SUFFICES ASSUME CalendarInv, [RecurrenceNext]_recurrenceVars PROVE CalendarInv'
  OBVIOUS
<1>2. CASE UNCHANGED recurrenceVars
  BY <1>1, <1>2 DEF recurrenceVars, CalendarInv, Interval
<1>3. CASE Fire
  <2>1. PICK b : b = NextDue
    OBVIOUS
  <2>2. firings' = Append(firings, b) /\ rule' = rule /\ ~ Ends(Due)
    BY <1>3, <2>1 DEF Fire, NextDue
  <2>3. /\ Valid(b)
        /\ Follows(rule, Interval, Due, b)
        /\ rule.repeat = "monthly" =>
               b.day = IF Due.day <= MonthLength[b.month] THEN Due.day
                       ELSE MonthLength[b.month]
    BY <1>1, <2>1, <2>2, NextFollows
  <2>4. PICK n \in Nat : n = Len(firings) /\ n > 0
    BY <1>1 DEF CalendarInv
  <2>5. PICK f : f = firings'
    OBVIOUS
  <2>6. b \in Date /\ firings \in Seq(Date) /\ rule \in Rule
    BY <1>1, <2>3 DEF Valid, CalendarInv
  <2>7. /\ f \in Seq(Date) /\ Len(f) = n + 1 /\ f[n + 1] = b
        /\ \A i \in 1 .. n : f[i] = firings[i]
    BY <2>2, <2>4, <2>5, <2>6
  <2>8. ASSUME NEW i \in 1 .. (n + 1) PROVE Valid(f[i])
    <3>1. CASE i = n + 1
      BY <2>3, <2>7, <3>1
    <3>2. CASE i # n + 1
      <4>1. i \in 1 .. n
        BY <2>4, <3>2
      <4> QED
        BY <1>1, <2>4, <2>7, <4>1 DEF CalendarInv
    <3> QED
      BY <3>1, <3>2
  <2>9. ASSUME rule.repeat = "monthly", NEW i \in 1 .. (n + 1) PROVE Clamped(f, i)
    <3>1. CASE i = n + 1
      <4>1. Clamped(f, Len(f))
        BY <1>1, <2>2, <2>3, <2>5, <2>9, NextIsClamped
      <4> QED
        BY <2>7, <3>1, <4>1
    <3>2. CASE i # n + 1
      <4>1. i \in 1 .. n /\ 1 \in 1 .. n /\ \A j \in 1 .. i : j \in 1 .. n
        BY <2>4, <3>2
      <4>2. Clamped(firings, i)
        BY <1>1, <2>4, <2>9, <4>1 DEF CalendarInv
      <4>3. f[i] = firings[i] /\ f[1] = firings[1] /\ \A j \in 1 .. i : f[j] = firings[j]
        BY <2>7, <4>1
      <4> QED
        BY <4>2, <4>3 DEF Clamped
    <3> QED
      BY <3>1, <3>2
  <2>10. ASSUME NEW i \in 2 .. (n + 1) PROVE Follows(rule, Interval, f[i - 1], f[i])
    <3>1. CASE i = n + 1
      <4>1. f[i] = b /\ f[i - 1] = Due
        <5>1. n \in 1 .. n /\ i - 1 = n
          BY <2>4, <3>1
        <5> QED
          BY <2>4, <2>7, <3>1, <5>1 DEF Due
      <4> QED
        BY <2>3, <4>1
    <3>2. CASE i # n + 1
      <4>1. i \in 2 .. n /\ i \in 1 .. n /\ i - 1 \in 1 .. n
        BY <2>4, <3>2
      <4>2. Follows(rule, Interval, firings[i - 1], firings[i])
        BY <1>1, <2>4, <4>1 DEF CalendarInv
      <4>3. f[i] = firings[i] /\ f[i - 1] = firings[i - 1]
        BY <2>7, <4>1
      <4> QED
        BY <4>2, <4>3
    <3> QED
      BY <3>1, <3>2
  <2>11. Len(f) > 0 /\ Interval' = Interval
    BY <2>2, <2>4, <2>7 DEF Interval
  <2> QED
    BY <2>2, <2>5, <2>6, <2>7, <2>8, <2>9, <2>10, <2>11 DEF CalendarInv
<1> QED
  BY <1>1, <1>2, <1>3 DEF RecurrenceNext

\* the invariant says of each two firings in a row what the property says
LEMMA CalendarInvSuffices == CalendarInv => NoDayIsSkipped
<1>1. SUFFICES ASSUME CalendarInv, NEW i \in 2 .. Len(firings)
               PROVE  LET a == firings[i - 1]
                          b == firings[i]
                      IN  CASE rule.repeat = "monthly" ->
                                  /\ b.month = a.month + Interval
                                  /\ b.day \in {firings[1].day}
                                         \cup {MonthLength[firings[j].month] : j \in 1 .. i}
                                  /\ b.day <= firings[1].day
                                  /\ \A j \in 1 .. i : b.day <= MonthLength[firings[j].month]
                            [] rule.repeat = "weekly" /\ rule.weekdays # {} ->
                                  LET asked == {n \in Between(a, b) :
                                                   WeekdayOf(n) \in rule.weekdays}
                                  IN  /\ DayNumber(b) \in asked
                                      /\ Interval = 1 => asked = {DayNumber(b)}
                            [] OTHER ->
                                  DayNumber(b) - DayNumber(a)
                                      = Interval * (IF rule.repeat = "weekly" THEN 7 ELSE 1)
  BY DEF NoDayIsSkipped
<1>2. Follows(rule, Interval, firings[i - 1], firings[i])
  BY <1>1 DEF CalendarInv
<1>3. Interval \in Nat /\ rule.repeat \in {"daily", "weekly", "monthly"}
  BY <1>1, Intervals
<1>4. Interval * 1 = Interval
  BY <1>3
<1>5. CASE rule.repeat = "monthly"
  <2>1. i \in 1 .. Len(firings)
    BY <1>1 DEF CalendarInv
  <2>2. Clamped(firings, i)
    BY <1>1, <1>5, <2>1 DEF CalendarInv
  <2> QED
    BY <1>2, <1>5, <2>2 DEF Follows, Clamped
<1>6. CASE rule.repeat = "weekly" /\ rule.weekdays # {}
  BY <1>2, <1>6 DEF Follows
<1>7. CASE rule.repeat = "weekly" /\ rule.weekdays = {}
  BY <1>2, <1>7 DEF Follows
<1>8. CASE rule.repeat = "daily"
  BY <1>2, <1>4, <1>8 DEF Follows
<1> QED
  BY <1>3, <1>5, <1>6, <1>7, <1>8

\* advance_recurrence, however often it is applied: a recurring task is due at its interval,
\* except that a weekly one with weekdays is only shown to keep to them, and to pass over none
\* of them if it was asked for every week; a monthly one is clamped to the months since
THEOREM NoDayIsSkippedAlways == RecurrenceSpec => []NoDayIsSkipped
<1>1. RecurrenceInit => CalendarInv
  BY CalendarInvInit
<1>2. CalendarInv /\ [RecurrenceNext]_recurrenceVars => CalendarInv'
  BY CalendarInvStep
<1>3. CalendarInv => NoDayIsSkipped
  BY CalendarInvSuffices
<1> QED
  BY <1>1, <1>2, <1>3, PTL DEF RecurrenceSpec

-----------------------------------------------------------------------------
(* The layouts of the history: members of sequences.                        *)

\* the members of a sequence,
LEMMA MembersAreOfType == ASSUME NEW T, NEW s \in Seq(T) PROVE Elements(s) \subseteq T
BY DEF Elements

\* of an appended one,
LEMMA AppendedElements ==
    ASSUME NEW T, NEW s \in Seq(T), NEW x \in T
    PROVE  Append(s, x) \in Seq(T) /\ Elements(Append(s, x)) = Elements(s) \cup {x}
<1>1. PICK n \in Nat : n = Len(s) /\ DOMAIN s = 1 .. n
  OBVIOUS
<1>2. PICK t \in Seq(T) : t = Append(s, x)
  <2>1. Append(s, x) \in Seq(T)
    OBVIOUS
  <2> QED
    BY <2>1
<1>3. DOMAIN t = 1 .. (n + 1) /\ t[n + 1] = x /\ \A i \in 1 .. n : t[i] = s[i]
  BY <1>1, <1>2
<1>4. \A i \in 1 .. (n + 1) : i = n + 1 \/ i \in 1 .. n
  BY <1>1
<1>5. n + 1 \in 1 .. (n + 1) /\ \A i \in 1 .. n : i \in 1 .. (n + 1)
  BY <1>1
<1>6. Elements(t) \subseteq Elements(s) \cup {x}
  BY <1>1, <1>3, <1>4 DEF Elements
<1>7. Elements(s) \cup {x} \subseteq Elements(t)
  BY <1>1, <1>3, <1>5 DEF Elements
<1> QED
  BY <1>2, <1>6, <1>7

\* of two sequences in a row,
LEMMA JoinedElements ==
    ASSUME NEW T, NEW s \in Seq(T), NEW r \in Seq(T)
    PROVE  s \o r \in Seq(T) /\ Elements(s \o r) = Elements(s) \cup Elements(r)
<1>1. PICK n \in Nat, k \in Nat : n = Len(s) /\ DOMAIN s = 1 .. n
                                  /\ k = Len(r) /\ DOMAIN r = 1 .. k
  OBVIOUS
<1>2. PICK t \in Seq(T) : t = s \o r
  <2>1. s \o r \in Seq(T)
    OBVIOUS
  <2> QED
    BY <2>1
<1>3. /\ DOMAIN t = 1 .. (n + k)
      /\ \A i \in 1 .. n : t[i] = s[i]
      /\ \A i \in 1 .. k : t[n + i] = r[i]
  BY <1>1, <1>2
<1>4. ASSUME NEW i \in 1 .. (n + k) PROVE t[i] \in Elements(s) \cup Elements(r)
  <2>1. CASE i \in 1 .. n
    BY <1>1, <1>3, <2>1 DEF Elements
  <2>2. CASE i \notin 1 .. n
    <3>1. PICK j \in 1 .. k : i = n + j
      <4>1. i - n \in 1 .. k /\ i = n + (i - n)
        BY <1>1, <2>2
      <4> QED
        BY <4>1
    <3> QED
      BY <1>1, <1>3, <3>1 DEF Elements
  <2> QED
    BY <2>1, <2>2
<1>5. Elements(t) \subseteq Elements(s) \cup Elements(r)
  BY <1>3, <1>4 DEF Elements
<1>6. Elements(s) \subseteq Elements(t)
  <2>1. \A i \in 1 .. n : i \in 1 .. (n + k)
    BY <1>1
  <2> QED
    BY <1>1, <1>3, <2>1 DEF Elements
<1>7. Elements(r) \subseteq Elements(t)
  <2>1. SUFFICES ASSUME NEW x \in Elements(r) PROVE x \in Elements(t)
    OBVIOUS
  <2>2. PICK i \in 1 .. k : x = r[i]
    BY <1>1 DEF Elements
  <2>3. PICK j \in 1 .. (n + k) : j = n + i
    BY <1>1
  <2>4. x = t[j]
    BY <1>3, <2>2, <2>3
  <2>5. j \in DOMAIN t
    BY <1>3
  <2> QED
    BY <2>4, <2>5 DEF Elements
<1> QED
  BY <1>2, <1>5, <1>6, <1>7

\* of a sequence read backwards,
LEMMA ReversedElements ==
    ASSUME NEW T, NEW s \in Seq(T), NEW r, r = [i \in DOMAIN s |-> s[Len(s) + 1 - i]]
    PROVE  r \in Seq(T) /\ Elements(r) = Elements(s)
<1>1. PICK n \in Nat : n = Len(s) /\ DOMAIN s = 1 .. n /\ \A i \in 1 .. n : s[i] \in T
  OBVIOUS
<1>2. r = [i \in 1 .. n |-> s[n + 1 - i]]
  BY <1>1
<1>3. \A i \in 1 .. n : n + 1 - i \in 1 .. n /\ n + 1 - (n + 1 - i) = i
  BY <1>1
<1>4. DOMAIN r = 1 .. n /\ \A i \in 1 .. n : r[i] = s[n + 1 - i]
  BY <1>2
<1>5. r \in [1 .. n -> T]
  BY <1>1, <1>2, <1>3
<1>6. r \in Seq(T)
  BY <1>5
<1>7. Elements(r) \subseteq Elements(s)
  BY <1>1, <1>3, <1>4 DEF Elements
<1>8. ASSUME NEW i \in 1 .. n PROVE s[i] \in Elements(r)
  <2>1. PICK j \in 1 .. n : j = n + 1 - i
    BY <1>3
  <2>2. r[j] = s[i]
    BY <1>3, <1>4, <2>1
  <2> QED
    BY <1>4, <2>2 DEF Elements
<1>9. Elements(s) \subseteq Elements(r)
  BY <1>1, <1>8 DEF Elements
<1> QED
  BY <1>6, <1>7, <1>9

\* and of the end of one
LEMMA NewestElements ==
    ASSUME NEW T, NEW s \in Seq(T), NEW n \in Nat
    PROVE  Newest(s, n) \in Seq(T) /\ Elements(Newest(s, n)) \subseteq Elements(s)
<1>1. PICK k \in Nat : k = Len(s) /\ DOMAIN s = 1 .. k /\ \A i \in 1 .. k : s[i] \in T
  OBVIOUS
<1>2. CASE k <= n
  BY <1>1, <1>2 DEF Newest
<1>3. CASE ~ k <= n
  <2>1. PICK m \in Int : m = k - n + 1 /\ m \in 1 .. (k + 1)
    <3>1. k - n + 1 \in Int
      BY <1>1
    <3>2. k - n + 1 \in 1 .. (k + 1)
      BY <1>1, <1>3
    <3> QED
      BY <3>1, <3>2
  <2>2. PICK t : t = SubSeq(s, m, k)
    OBVIOUS
  <2>3. t = Newest(s, n)
    BY <1>1, <1>3, <2>1, <2>2 DEF Newest
  <2>4. \A i \in m .. k : s[i] \in T
    BY <1>1, <2>1
  <2>5. /\ t \in Seq(T) /\ Len(t) = IF m <= k THEN k - m + 1 ELSE 0
        /\ \A i \in 1 .. (k - m + 1) : t[i] = s[m + i - 1]
    BY <2>1, <2>2, <2>4, SubSeqProperties
  <2>6. k - m + 1 = n /\ (IF m <= k THEN k - m + 1 ELSE 0) = n
    BY <1>1, <2>1
  <2>7. DOMAIN t = 1 .. n /\ \A i \in 1 .. n : t[i] = s[m + i - 1]
    BY <2>5, <2>6
  <2>8. \A i \in 1 .. n : m + i - 1 \in 1 .. k
    BY <1>1, <2>1
  <2>9. Elements(t) \subseteq Elements(s)
    BY <1>1, <2>7, <2>8 DEF Elements
  <2> QED
    BY <2>3, <2>5, <2>9
<1> QED
  BY <1>2, <1>3

-----------------------------------------------------------------------------
(* The layouts of the history: sequences without some members.              *)

\* what Without computes, step by step
Rests(s, S, n, g) ==
    g = [i \in 0 .. n |-> IF i = 0 THEN <<>>
                          ELSE IF s[i] \in S THEN g[i - 1] ELSE Append(g[i - 1], s[i])]

\* there is such a function for each number of steps
LEMMA RestsExist == ASSUME NEW s, NEW S PROVE \A n \in Nat : \E g : Rests(s, S, n, g)
<1> DEFINE Bad == {n \in Nat : ~ \E g : Rests(s, S, n, g)}
<1>1. SUFFICES ASSUME Bad # {} PROVE FALSE
  OBVIOUS
<1>2. PICK n \in Bad : \A j \in Bad : n <= j
  BY <1>1, LeastNumber
<1>3. n \in Nat /\ ~ \E g : Rests(s, S, n, g)
  OBVIOUS
<1>4. CASE n = 0
  <2>1. Rests(s, S, 0, [i \in 0 .. 0 |-> <<>>])
    BY DEF Rests
  <2> QED
    BY <1>3, <1>4, <2>1
<1>5. CASE n # 0
  <2>1. n - 1 \in Nat /\ n - 1 \notin Bad
    BY <1>2, <1>3, <1>5
  <2>2. PICK g : Rests(s, S, n - 1, g)
    BY <2>1
  <2> DEFINE Of(f, i) == IF i = 0 THEN <<>>
                         ELSE IF s[i] \in S THEN f[i - 1] ELSE Append(f[i - 1], s[i])
             h == [i \in 0 .. n |-> IF i = n THEN Of(g, n) ELSE g[i]]
  <2>3. \A i \in 0 .. (n - 1) : g[i] = Of(g, i)
    BY <2>2 DEF Rests
  <2>4. ASSUME NEW i \in 0 .. n PROVE h[i] = Of(h, i)
    <3>1. i # 0 => i - 1 \in 0 .. n /\ i - 1 # n /\ h[i - 1] = g[i - 1]
      OBVIOUS
    <3>2. Of(h, i) = Of(g, i)
      BY <3>1
    <3>3. CASE i = n
      BY <3>2, <3>3
    <3>4. CASE i # n
      <4>1. h[i] = g[i] /\ i \in 0 .. (n - 1)
        BY <3>4
      <4> QED
        BY <2>3, <3>2, <4>1
    <3> QED
      BY <3>3, <3>4
  <2>5. h = [i \in 0 .. n |-> h[i]]
    OBVIOUS
  <2> HIDE DEF h
  <2>6. h = [i \in 0 .. n |-> Of(h, i)]
    BY <2>4, <2>5
  <2>7. Rests(s, S, n, h)
    BY <2>6 DEF Rests
  <2> QED
    BY <1>3, <2>7
<1> QED
  BY <1>4, <1>5

\* Without leaves the other members
LEMMA WithoutLeaves ==
    ASSUME NEW T, NEW s \in Seq(T), NEW S
    PROVE  Without(s, S) \in Seq(T) /\ Elements(Without(s, S)) = Elements(s) \ S
<1>1. PICK n \in Nat : n = Len(s) /\ DOMAIN s = 1 .. n /\ \A i \in 1 .. n : s[i] \in T
  OBVIOUS
<1>2. PICK g : g = CHOOSE f : f = [i \in 0 .. Len(s) |->
                          IF i = 0 THEN <<>>
                          ELSE IF s[i] \in S THEN f[i - 1] ELSE Append(f[i - 1], s[i])]
  OBVIOUS
<1>3. Rests(s, S, n, g)
  <2>1. \E f : f = [i \in 0 .. Len(s) |->
                    IF i = 0 THEN <<>>
                    ELSE IF s[i] \in S THEN f[i - 1] ELSE Append(f[i - 1], s[i])]
    <3>1. PICK f : Rests(s, S, n, f)
      BY RestsExist
    <3>2. f = [i \in 0 .. Len(s) |->
                  IF i = 0 THEN <<>>
                  ELSE IF s[i] \in S THEN f[i - 1] ELSE Append(f[i - 1], s[i])]
      BY <1>1, <3>1 DEF Rests
    <3> QED
      BY <3>2
  <2>2. g = [i \in 0 .. Len(s) |->
                IF i = 0 THEN <<>>
                ELSE IF s[i] \in S THEN g[i - 1] ELSE Append(g[i - 1], s[i])]
    BY <1>2, <2>1
  <2> QED
    BY <1>1, <2>2 DEF Rests
<1>4. \A i \in 0 .. n : g[i] = IF i = 0 THEN <<>>
                               ELSE IF s[i] \in S THEN g[i - 1] ELSE Append(g[i - 1], s[i])
  BY <1>3 DEF Rests
<1>5. Without(s, S) = g[n]
  BY <1>1, <1>2 DEF Without
<1> DEFINE Good(i) == g[i] \in Seq(T) /\ Elements(g[i]) = {s[j] : j \in 1 .. i} \ S
           Bad == {i \in 0 .. n : ~ Good(i)}
<1>6. SUFFICES ASSUME Bad # {} PROVE FALSE
  <2>1. n \in 0 .. n
    OBVIOUS
  <2>2. Good(n)
    BY <1>6, <2>1
  <2>3. Elements(s) = {s[j] : j \in 1 .. n}
    BY <1>1 DEF Elements
  <2> QED
    BY <1>5, <2>2, <2>3
<1>7. Bad \in SUBSET Nat
  OBVIOUS
<1>8. PICK i \in Bad : \A j \in Bad : i <= j
  BY <1>6, <1>7, LeastNumber
<1>9. i \in 0 .. n /\ ~ Good(i)
  OBVIOUS
<1>10. CASE i = 0
  <2>1. g[i] = <<>>
    BY <1>4, <1>9, <1>10
  <2>2. Elements(<<>>) = {} /\ {s[j] : j \in 1 .. 0} = {}
    BY DEF Elements
  <2> QED
    BY <1>9, <1>10, <2>1, <2>2
<1>11. CASE i # 0
  <2>1. i - 1 \in 0 .. n /\ ~ i <= i - 1 /\ i \in 1 .. n
    BY <1>9, <1>11
  <2>2. Good(i - 1)
    BY <1>8, <2>1
  <2>3. PICK rest \in Seq(T) : rest = g[i - 1]
    BY <2>2
  <2>4. Elements(rest) = {s[j] : j \in 1 .. (i - 1)} \ S
    BY <2>2, <2>3
  <2>5. {s[j] : j \in 1 .. i} = {s[j] : j \in 1 .. (i - 1)} \cup {s[i]}
    <3>1. \A j \in 1 .. i : j = i \/ j \in 1 .. (i - 1)
      BY <2>1
    <3>2. \A j \in 1 .. (i - 1) : j \in 1 .. i
      BY <2>1
    <3>3. i \in 1 .. i
      BY <2>1
    <3> QED
      BY <3>1, <3>2, <3>3
  <2>6. CASE s[i] \in S
    <3>1. g[i] = rest
      BY <1>4, <1>9, <1>11, <2>3, <2>6
    <3> QED
      BY <1>9, <2>4, <2>5, <2>6, <3>1
  <2>7. CASE s[i] \notin S
    <3>1. g[i] = Append(rest, s[i])
      BY <1>4, <1>9, <1>11, <2>3, <2>7
    <3>2. s[i] \in T
      BY <1>1, <2>1
    <3>3. Append(rest, s[i]) \in Seq(T)
          /\ Elements(Append(rest, s[i])) = Elements(rest) \cup {s[i]}
      BY <3>2, AppendedElements
    <3> QED
      BY <1>9, <2>4, <2>5, <2>7, <3>1, <3>3
  <2> QED
    BY <2>6, <2>7
<1> QED
  BY <1>10, <1>11

-----------------------------------------------------------------------------
(* The layouts of the history: the inductive invariant.                     *)

Versions == [Conversation -> Nat]

\* the legacy file is readable
LayoutTypes ==
    /\ up \in BOOLEAN /\ changes \in Nat /\ dirtyKeys \in SUBSET Conversation
    /\ cache \in Seq(Conversation) /\ paths \in Seq(Conversation)
    /\ mem \in Versions /\ content \in Versions /\ kept \in Versions /\ promised \in Versions
    /\ legacy \in [st : {"gone", "there"}, of : Versions]
    /\ flushing \in [st : {"idle", "writing"}, keys : SUBSET Conversation,
                     left : SUBSET Conversation, snapshot : Versions, migrating : BOOLEAN]
    /\ reading \in [st : {"idle", "listing", "reading"}, old : Versions, new : Versions,
                    left : SUBSET Conversation]

\* a change has a number that nothing has yet
NumbersInv ==
    \A c \in Conversation :
        /\ mem[c] <= changes + 1 /\ content[c] <= changes + 1 /\ legacy.of[c] <= changes + 1
        /\ kept[c] <= changes + 1 /\ flushing.snapshot[c] <= changes + 1

\* StoredHistoryIsKept, in terms of the members of the cache and of the directory
KeptInv ==
    \A c \in Conversation : kept[c] # 0 =>
        /\ (IF c \in Elements(paths) THEN content[c] ELSE legacy.of[c]) = kept[c]
        /\ up => c \in Elements(cache) /\ mem[c] >= kept[c]

\* A flush writes nothing older than what is stored or newer than what is cached, and one that
\* migrates has a file, or will write one, of everything that must not be lost.
WritingInv ==
    flushing.st = "writing" =>
        /\ up
        /\ legacy.st # "gone" => flushing.migrating
        /\ \A c \in Conversation :
            /\ mem[c] # 0 => mem[c] >= flushing.snapshot[c]
            /\ c \in flushing.left => kept[c] <= flushing.snapshot[c]
            /\ flushing.migrating /\ kept[c] # 0 =>
                   flushing.snapshot[c] # 0 /\ (c \in flushing.left \/ c \in Elements(paths))

\* What a page was promised is at least still stored, and the page has read it, will read it or
\* took it from the legacy file.
PageInv ==
    \A c \in Conversation :
        /\ promised[c] <= kept[c]
        /\ reading.st = "listing" => reading.new[c] = 0
        /\ reading.st = "listing" /\ promised[c] # 0 =>
               c \in Elements(paths) \/ reading.old[c] >= promised[c]
        /\ reading.st = "reading" /\ promised[c] # 0 =>
               /\ c \in reading.left => c \in Elements(paths)
               /\ c \notin reading.left =>
                      \/ reading.new[c] >= promised[c]
                      \/ reading.new[c] = 0 /\ reading.old[c] >= promised[c]

LayoutInv == LayoutTypes /\ NumbersInv /\ KeptInv /\ WritingInv /\ PageInv

\* a page goes on reading as long as no file of what it was promised disappears
LEMMA PageStays ==
    ASSUME PageInv, reading' = reading,
           \A c \in Conversation :
               /\ promised'[c] <= kept'[c]
               /\ promised'[c] # 0 =>
                      /\ promised'[c] = promised[c]
                      /\ c \in Elements(paths) => c \in Elements(paths')
    PROVE  PageInv'
BY DEF PageInv

\* get_history: the conversation is cached, and whatever is evicted is forgotten
LEMMA GetHistoryDoes ==
    ASSUME LayoutTypes, NEW c \in Conversation, NEW m \in Versions, GetHistory(c, m)
    PROVE  /\ cache' \in Seq(Conversation) /\ paths' \in Seq(Conversation)
           /\ \E gone \in SUBSET Conversation :
                /\ Elements(cache') = (Elements(cache) \cup {c}) \ gone
                /\ Elements(paths') = Elements(paths) \ gone
                /\ mem' = [d \in Conversation |-> IF d \in gone THEN 0 ELSE m[d]]
                /\ content' = [d \in Conversation |-> IF d \in gone THEN 0 ELSE content[d]]
                /\ kept' = [d \in Conversation |-> IF d \in gone THEN 0 ELSE kept[d]]
                /\ promised' = [d \in Conversation |-> IF d \in gone THEN 0 ELSE promised[d]]
<1>1. /\ cache \in Seq(Conversation) /\ paths \in Seq(Conversation)
      /\ content \in Versions /\ kept \in Versions /\ promised \in Versions
  BY DEF LayoutTypes
<1>2. CASE InCache(c)
  <2>1. /\ cache' = Append(OthersOf(cache, c), c) /\ mem' = m /\ paths' = paths
        /\ content' = content /\ kept' = kept /\ promised' = promised
    BY <1>2 DEF GetHistory
  <2>2. PICK rest : rest = Without(cache, {c})
    OBVIOUS
  <2>3. rest \in Seq(Conversation) /\ Elements(rest) = Elements(cache) \ {c}
    BY <1>1, <2>2, WithoutLeaves
  <2>4. /\ cache' = Append(rest, c) /\ cache' \in Seq(Conversation)
        /\ Elements(cache') = Elements(rest) \cup {c}
    <3>1. cache' = Append(rest, c)
      BY <2>1, <2>2 DEF OthersOf
    <3>2. /\ Append(rest, c) \in Seq(Conversation)
          /\ Elements(Append(rest, c)) = Elements(rest) \cup {c}
      BY <2>3, AppendedElements
    <3> QED
      BY <3>1, <3>2
  <2>5. PICK none \in SUBSET Conversation : none = {}
    OBVIOUS
  <2>6. /\ Elements(cache') = (Elements(cache) \cup {c}) \ none
        /\ Elements(paths') = Elements(paths) \ none
    BY <2>1, <2>3, <2>4, <2>5
  <2>7. /\ mem' = [d \in Conversation |-> IF d \in none THEN 0 ELSE m[d]]
        /\ content' = [d \in Conversation |-> IF d \in none THEN 0 ELSE content[d]]
        /\ kept' = [d \in Conversation |-> IF d \in none THEN 0 ELSE kept[d]]
        /\ promised' = [d \in Conversation |-> IF d \in none THEN 0 ELSE promised[d]]
    BY <1>1, <2>1, <2>5 DEF Versions
  <2> QED
    BY <1>1, <2>1, <2>4, <2>6, <2>7
<1>3. CASE ~ InCache(c)
  <2>1. PICK s : s = Append(cache, c)
    OBVIOUS
  <2>2. s \in Seq(Conversation) /\ Elements(s) = Elements(cache) \cup {c}
    BY <1>1, <2>1, AppendedElements
  <2>3. EvictExcess(s, m)
    BY <1>3, <2>1 DEF GetHistory
  <2>4. PICK now : now = Newest(s, MaxConversations)
    OBVIOUS
  <2>5. now \in Seq(Conversation) /\ Elements(now) \subseteq Elements(s)
    BY <2>2, <2>4, NewestElements, HistoryLayoutAssumption
  <2>6. PICK gone : gone = Elements(s) \ Elements(now)
    OBVIOUS
  <2>7. gone \in SUBSET Conversation /\ Elements(now) = Elements(s) \ gone
    BY <2>2, <2>5, <2>6, MembersAreOfType
  <2>8. /\ cache' = now /\ paths' = Without(paths, gone)
        /\ mem' = [d \in Conversation |-> IF d \in gone THEN 0 ELSE m[d]]
        /\ content' = [d \in Conversation |-> IF d \in gone THEN 0 ELSE content[d]]
        /\ kept' = [d \in Conversation |-> IF d \in gone THEN 0 ELSE kept[d]]
        /\ promised' = [d \in Conversation |-> IF d \in gone THEN 0 ELSE promised[d]]
    BY <2>3, <2>4, <2>6 DEF EvictExcess, Forget
  <2>9. paths' \in Seq(Conversation) /\ Elements(paths') = Elements(paths) \ gone
    BY <1>1, <2>8, WithoutLeaves
  <2> QED
    BY <2>2, <2>5, <2>7, <2>8, <2>9
<1> QED
  BY <1>2, <1>3

-----------------------------------------------------------------------------
(* The layouts of the history: the steps of the bot.                        *)

\* a read of a conversation, or a change that gives it a new number
LEMMA TouchedInv ==
    ASSUME LayoutInv, up, NEW c \in Conversation, NEW m \in Versions, GetHistory(c, m),
           m = mem \/ (m = [mem EXCEPT ![c] = changes + 2] /\ changes' = changes + 1),
           changes' \in Nat, changes' >= changes, dirtyKeys' \in SUBSET Conversation,
           UNCHANGED <<up, legacy, flushing, reading>>
    PROVE  LayoutInv'
<1>1. LayoutTypes /\ NumbersInv /\ KeptInv /\ WritingInv /\ PageInv
  BY DEF LayoutInv
<1>2. cache' \in Seq(Conversation) /\ paths' \in Seq(Conversation)
  BY <1>1, GetHistoryDoes
<1>3. PICK gone \in SUBSET Conversation :
        /\ Elements(cache') = (Elements(cache) \cup {c}) \ gone
        /\ Elements(paths') = Elements(paths) \ gone
        /\ mem' = [d \in Conversation |-> IF d \in gone THEN 0 ELSE m[d]]
        /\ content' = [d \in Conversation |-> IF d \in gone THEN 0 ELSE content[d]]
        /\ kept' = [d \in Conversation |-> IF d \in gone THEN 0 ELSE kept[d]]
        /\ promised' = [d \in Conversation |-> IF d \in gone THEN 0 ELSE promised[d]]
  BY <1>1, GetHistoryDoes
<1>4. UNCHANGED <<up, legacy, flushing, reading>>
  OBVIOUS
<1>5. LayoutTypes'
  BY <1>1, <1>2, <1>3, <1>4 DEF LayoutTypes, Versions
<1>6. ASSUME NEW d \in Conversation
      PROVE  /\ d \in gone => /\ mem'[d] = 0 /\ content'[d] = 0 /\ kept'[d] = 0 /\ promised'[d] = 0
             /\ d \notin gone => /\ mem'[d] = m[d] /\ content'[d] = content[d]
                                 /\ kept'[d] = kept[d] /\ promised'[d] = promised[d]
             /\ mem[d] \in Nat /\ content[d] \in Nat /\ kept[d] \in Nat /\ promised[d] \in Nat
             /\ flushing.snapshot[d] \in Nat /\ legacy.of[d] \in Nat /\ changes \in Nat
  BY <1>1, <1>3 DEF LayoutTypes, Versions
<1>7. ASSUME NEW d \in Conversation
      PROVE  m[d] = mem[d] \/ (m[d] = changes + 2 /\ changes' = changes + 1)
  BY <1>1 DEF LayoutTypes, Versions
<1>8. NumbersInv'
  <2> SUFFICES ASSUME NEW d \in Conversation
               PROVE  /\ mem'[d] <= changes' + 1 /\ content'[d] <= changes' + 1
                      /\ legacy'.of[d] <= changes' + 1 /\ kept'[d] <= changes' + 1
                      /\ flushing'.snapshot[d] <= changes' + 1
    BY DEF NumbersInv
  <2>1. /\ mem[d] <= changes + 1 /\ content[d] <= changes + 1 /\ legacy.of[d] <= changes + 1
        /\ kept[d] <= changes + 1 /\ flushing.snapshot[d] <= changes + 1
    BY <1>1 DEF NumbersInv
  <2> QED
    BY <1>4, <1>6, <1>7, <2>1
<1>9. ASSUME NEW d \in Conversation
      PROVE  m[d] # 0 => m[d] = mem[d] \/ (m[d] >= kept[d] /\ m[d] >= flushing.snapshot[d])
  BY <1>1, <1>6, <1>7 DEF NumbersInv
<1>10. KeptInv'
  <2> SUFFICES ASSUME NEW d \in Conversation, kept'[d] # 0
               PROVE  /\ (IF d \in Elements(paths') THEN content'[d] ELSE legacy'.of[d]) = kept'[d]
                      /\ up' => d \in Elements(cache') /\ mem'[d] >= kept'[d]
    BY DEF KeptInv
  <2>1. d \notin gone /\ kept'[d] = kept[d] /\ content'[d] = content[d] /\ mem'[d] = m[d]
    BY <1>6
  <2>2. /\ (IF d \in Elements(paths) THEN content[d] ELSE legacy.of[d]) = kept[d]
        /\ d \in Elements(cache) /\ mem[d] >= kept[d]
    BY <1>1, <2>1 DEF KeptInv
  <2>3. m[d] >= kept[d]
    BY <1>6, <1>7, <2>2, <1>1 DEF NumbersInv
  <2> QED
    BY <1>3, <1>4, <2>1, <2>2, <2>3
<1>11. WritingInv'
  <2> SUFFICES ASSUME flushing.st = "writing", NEW d \in Conversation
               PROVE  /\ up
                      /\ legacy.st # "gone" => flushing.migrating
                      /\ mem'[d] # 0 => mem'[d] >= flushing.snapshot[d]
                      /\ d \in flushing.left => kept'[d] <= flushing.snapshot[d]
                      /\ flushing.migrating /\ kept'[d] # 0 =>
                             /\ flushing.snapshot[d] # 0
                             /\ d \in flushing.left \/ d \in Elements(paths')
    BY <1>4 DEF WritingInv
  <2>1. /\ up
        /\ legacy.st # "gone" => flushing.migrating
        /\ mem[d] # 0 => mem[d] >= flushing.snapshot[d]
        /\ d \in flushing.left => kept[d] <= flushing.snapshot[d]
        /\ flushing.migrating /\ kept[d] # 0 =>
               flushing.snapshot[d] # 0 /\ (d \in flushing.left \/ d \in Elements(paths))
    BY <1>1 DEF WritingInv
  <2>2. mem'[d] # 0 => mem'[d] >= flushing.snapshot[d]
    BY <1>6, <1>9, <2>1
  <2>3. d \in flushing.left => kept'[d] <= flushing.snapshot[d]
    BY <1>6, <2>1
  <2>4. kept'[d] # 0 => kept[d] # 0 /\ (d \in Elements(paths) => d \in Elements(paths'))
    BY <1>3, <1>6
  <2> QED
    BY <2>1, <2>2, <2>3, <2>4
<1>12. ASSUME NEW d \in Conversation
       PROVE  /\ promised'[d] <= kept'[d]
              /\ promised'[d] # 0 => /\ promised'[d] = promised[d]
                                     /\ d \in Elements(paths) => d \in Elements(paths')
  <2>1. promised[d] <= kept[d]
    BY <1>1 DEF PageInv
  <2> QED
    BY <1>3, <1>6, <2>1
<1>13. PageInv'
  BY <1>1, <1>4, <1>12, PageStays
<1> QED
  BY <1>5, <1>8, <1>10, <1>11, <1>13 DEF LayoutInv

\* changes and reads
LEMMA ChangeInv ==
    ASSUME LayoutInv, NEW c \in Conversation, Change(c) \/ ReadOne(c)
    PROVE  LayoutInv'
<1>1. LayoutTypes
  BY DEF LayoutInv
<1>2. CASE Change(c)
  <2>1. PICK m : m = [mem EXCEPT ![c] = changes + 2]
    OBVIOUS
  <2>2. m \in Versions /\ GetHistory(c, m) /\ changes' = changes + 1 /\ changes \in Nat
    BY <1>1, <1>2, <2>1 DEF Change, LayoutTypes, Versions
  <2>3. up /\ dirtyKeys' \in SUBSET Conversation /\ UNCHANGED <<up, legacy, flushing, reading>>
    BY <1>1, <1>2 DEF Change, LayoutTypes
  <2>4. changes' \in Nat /\ changes' >= changes
    BY <2>2
  <2> QED
    BY <2>1, <2>2, <2>3, <2>4, TouchedInv
<1>3. CASE ReadOne(c)
  <2>1. /\ mem \in Versions /\ GetHistory(c, mem) /\ changes' = changes /\ changes \in Nat
        /\ up /\ dirtyKeys' \in SUBSET Conversation /\ UNCHANGED <<up, legacy, flushing, reading>>
    BY <1>1, <1>3 DEF ReadOne, LayoutTypes
  <2>2. changes' \in Nat /\ changes' >= changes
    BY <2>1
  <2>3. PICK m : m = mem
    OBVIOUS
  <2> QED
    BY <2>1, <2>2, <2>3, TouchedInv
<1> QED
  BY <1>2, <1>3

\* a list of all of them only reorders the cache
LEMMA ReadAllInv == ASSUME LayoutInv, ReadAll PROVE LayoutInv'
<1>1. LayoutTypes /\ NumbersInv /\ KeptInv /\ WritingInv /\ PageInv
  BY DEF LayoutInv
<1>2. PICK s \in Seq(Conversation) : s = cache
  BY <1>1 DEF LayoutTypes
<1>3. PICK empty : empty = {c \in Conversation : mem[c] = 0}
  OBVIOUS
<1>4. PICK listed : listed = Without(s, empty)
  OBVIOUS
<1>5. listed = Listed
  BY <1>2, <1>3, <1>4 DEF Listed
<1>6. listed \in Seq(Conversation) /\ Elements(listed) = Elements(s) \ empty
  BY <1>4, WithoutLeaves
<1>7. PICK first : first = Without(s, Elements(listed))
  OBVIOUS
<1>8. first \in Seq(Conversation) /\ Elements(first) = Elements(s) \ Elements(listed)
  BY <1>7, WithoutLeaves
<1>9. PICK last : last = [i \in DOMAIN listed |-> listed[Len(listed) + 1 - i]]
  OBVIOUS
<1>10. last \in Seq(Conversation) /\ Elements(last) = Elements(listed)
  BY <1>6, <1>9, ReversedElements
<1>11. first \o last \in Seq(Conversation)
       /\ Elements(first \o last) = Elements(first) \cup Elements(last)
  BY <1>8, <1>10, JoinedElements
<1>12. cache' = first \o last
  BY <1>2, <1>5, <1>7, <1>9 DEF ReadAll
<1>13. cache' \in Seq(Conversation) /\ Elements(cache') = Elements(cache)
  BY <1>2, <1>6, <1>8, <1>10, <1>11, <1>12
<1>14. UNCHANGED <<up, mem, dirtyKeys, legacy, paths, content, flushing, reading, changes, kept,
                   promised>>
  BY DEF ReadAll
<1>15. LayoutTypes'
  BY <1>1, <1>13, <1>14 DEF LayoutTypes
<1>16. NumbersInv' /\ KeptInv' /\ WritingInv' /\ PageInv'
  BY <1>1, <1>13, <1>14 DEF NumbersInv, KeptInv, WritingInv, PageInv
<1> QED
  BY <1>15, <1>16 DEF LayoutInv

\* clear_history: what is cleared need not be found any more
LEMMA ClearHistoryInv == ASSUME LayoutInv, NEW c \in Conversation, ClearHistory(c) PROVE LayoutInv'
<1>1. LayoutTypes /\ NumbersInv /\ KeptInv /\ WritingInv /\ PageInv
  BY DEF LayoutInv
<1>2. /\ up /\ changes' = changes + 1 /\ mem' = [mem EXCEPT ![c] = 0]
      /\ dirtyKeys' = dirtyKeys \cup {c}
      /\ kept' = [d \in Conversation |-> IF d \in {c} THEN 0 ELSE kept[d]]
      /\ promised' = [d \in Conversation |-> IF d \in {c} THEN 0 ELSE promised[d]]
      /\ UNCHANGED <<up, legacy, paths, content, flushing, reading>>
  BY DEF ClearHistory, Forget
<1>3. cache' \in Seq(Conversation) /\ Elements(cache) \subseteq Elements(cache')
  <2>1. cache \in Seq(Conversation)
    BY <1>1 DEF LayoutTypes
  <2>2. CASE InCache(c)
    BY <2>1, <2>2 DEF ClearHistory
  <2>3. CASE ~ InCache(c)
    <3>1. cache' = Append(cache, c)
      BY <2>3 DEF ClearHistory
    <3> QED
      BY <2>1, <3>1, AppendedElements
  <2> QED
    BY <2>2, <2>3
<1>4. LayoutTypes'
  BY <1>1, <1>2, <1>3 DEF LayoutTypes, Versions
<1>5. ASSUME NEW d \in Conversation
      PROVE  /\ d = c => mem'[d] = 0 /\ kept'[d] = 0 /\ promised'[d] = 0
             /\ d # c => mem'[d] = mem[d] /\ kept'[d] = kept[d] /\ promised'[d] = promised[d]
             /\ mem[d] \in Nat /\ content[d] \in Nat /\ kept[d] \in Nat /\ promised[d] \in Nat
             /\ flushing.snapshot[d] \in Nat /\ legacy.of[d] \in Nat /\ changes \in Nat
  BY <1>1, <1>2 DEF LayoutTypes, Versions
<1>6. NumbersInv'
  <2> SUFFICES ASSUME NEW d \in Conversation
               PROVE  /\ mem'[d] <= changes' + 1 /\ content'[d] <= changes' + 1
                      /\ legacy'.of[d] <= changes' + 1 /\ kept'[d] <= changes' + 1
                      /\ flushing'.snapshot[d] <= changes' + 1
    BY DEF NumbersInv
  <2>1. /\ mem[d] <= changes + 1 /\ content[d] <= changes + 1 /\ legacy.of[d] <= changes + 1
        /\ kept[d] <= changes + 1 /\ flushing.snapshot[d] <= changes + 1
    BY <1>1 DEF NumbersInv
  <2> QED
    BY <1>2, <1>5, <2>1
<1>7. KeptInv'
  BY <1>1, <1>2, <1>3, <1>5 DEF KeptInv
<1>8. WritingInv'
  BY <1>1, <1>2, <1>5 DEF WritingInv
<1>9. ASSUME NEW d \in Conversation
      PROVE  promised'[d] <= kept'[d] /\ (promised'[d] # 0 => promised'[d] = promised[d])
  BY <1>1, <1>5 DEF PageInv
<1>10. PageInv'
  BY <1>1, <1>2, <1>9, PageStays
<1> QED
  BY <1>4, <1>6, <1>7, <1>8, <1>10 DEF LayoutInv

\* snapshot_for_flush
LEMMA BeginFlushInv == ASSUME LayoutInv, BeginFlush PROVE LayoutInv'
<1>1. LayoutTypes /\ NumbersInv /\ KeptInv /\ WritingInv /\ PageInv
  BY DEF LayoutInv
<1>2. PICK migrating \in BOOLEAN : migrating = (legacy.st # "gone")
  OBVIOUS
<1>3. PICK keys : keys = IF migrating THEN Elements(cache) ELSE dirtyKeys
  OBVIOUS
<1>4. keys \in SUBSET Conversation
  BY <1>1, <1>3, MembersAreOfType DEF LayoutTypes
<1>5. PICK snapshot : snapshot = [c \in Conversation |-> IF c \in keys THEN mem[c] ELSE 0]
  OBVIOUS
<1>6. snapshot \in Versions
  BY <1>1, <1>5 DEF LayoutTypes, Versions
<1>7. /\ up /\ flushing' = [st |-> "writing", keys |-> keys, left |-> keys, migrating |-> migrating,
                            snapshot |-> snapshot]
      /\ UNCHANGED <<up, cache, mem, dirtyKeys, legacy, paths, content, reading, changes, kept,
                     promised>>
  BY <1>2, <1>3, <1>5 DEF BeginFlush
<1>8. /\ flushing'.st = "writing" /\ flushing'.left = keys /\ flushing'.migrating = migrating
      /\ flushing'.snapshot = snapshot
  BY <1>7
<1>9. LayoutTypes'
  BY <1>1, <1>4, <1>6, <1>7 DEF LayoutTypes
<1>10. ASSUME NEW c \in Conversation
       PROVE  /\ snapshot[c] = IF c \in keys THEN mem[c] ELSE 0
              /\ mem[c] \in Nat /\ kept[c] \in Nat /\ snapshot[c] <= mem[c]
              /\ mem[c] <= changes + 1 /\ changes \in Nat
  BY <1>1, <1>5 DEF LayoutTypes, Versions, NumbersInv
<1>11. NumbersInv'
  BY <1>1, <1>7, <1>8, <1>10 DEF NumbersInv
<1>12. ASSUME NEW c \in Conversation, kept[c] # 0
       PROVE  c \in Elements(cache) /\ mem[c] >= kept[c]
  BY <1>1, <1>7, <1>12 DEF KeptInv
<1>13. WritingInv'
  <2> SUFFICES ASSUME NEW c \in Conversation
               PROVE  /\ mem[c] # 0 => mem[c] >= snapshot[c]
                      /\ c \in keys => kept[c] <= snapshot[c]
                      /\ migrating /\ kept[c] # 0 => snapshot[c] # 0 /\ c \in keys
    BY <1>2, <1>7, <1>8 DEF WritingInv
  <2>1. CASE kept[c] = 0
    BY <1>6, <1>10, <2>1 DEF Versions
  <2>2. CASE kept[c] # 0
    <3>1. migrating => c \in keys
      BY <1>3, <1>12, <2>2
    <3> QED
      BY <1>10, <1>12, <2>2, <3>1
  <2> QED
    BY <2>1, <2>2
<1>14. KeptInv' /\ PageInv'
  BY <1>1, <1>7 DEF KeptInv, PageInv
<1> QED
  BY <1>9, <1>11, <1>13, <1>14 DEF LayoutInv

\* write_conversation_file: what it stores is what was cached when the flush began
LEMMA WriteConversationInv ==
    ASSUME LayoutInv, NEW c \in Conversation, WriteConversation(c) PROVE LayoutInv'
<1>1. LayoutTypes /\ NumbersInv /\ KeptInv /\ WritingInv /\ PageInv
  BY DEF LayoutInv
<1>2. flushing.st = "writing" /\ c \in flushing.left
  BY DEF WriteConversation
<1>3. PICK n \in Nat : n = flushing.snapshot[c]
  BY <1>1 DEF LayoutTypes, Versions
<1>4. PICK k \in Nat : k = IF InCache(c) /\ mem[c] # 0 THEN n ELSE 0
  OBVIOUS
<1>5. /\ content' = [content EXCEPT ![c] = n] /\ kept' = [kept EXCEPT ![c] = k]
      /\ paths' = IF n = 0 THEN OthersOf(paths, c) ELSE Append(OthersOf(paths, c), c)
      /\ flushing' = [flushing EXCEPT !.left = @ \ {c}]
      /\ UNCHANGED <<up, cache, mem, dirtyKeys, legacy, reading, changes, promised>>
  BY <1>3, <1>4 DEF WriteConversation
<1>6. paths' \in Seq(Conversation)
      /\ Elements(paths') = IF n = 0 THEN Elements(paths) \ {c} ELSE Elements(paths) \cup {c}
  <2>1. PICK rest : rest = OthersOf(paths, c)
    OBVIOUS
  <2>2. rest \in Seq(Conversation) /\ Elements(rest) = Elements(paths) \ {c}
    <3>1. paths \in Seq(Conversation)
      BY <1>1 DEF LayoutTypes
    <3> QED
      BY <2>1, <3>1, WithoutLeaves DEF OthersOf
  <2>3. Append(rest, c) \in Seq(Conversation)
        /\ Elements(Append(rest, c)) = Elements(rest) \cup {c}
    BY <2>2, AppendedElements
  <2>4. CASE n = 0
    BY <1>5, <2>1, <2>2, <2>4
  <2>5. CASE n # 0
    <3>1. paths' = Append(rest, c)
      BY <1>5, <2>1, <2>5
    <3> QED
      BY <2>2, <2>3, <2>5, <3>1
  <2> QED
    BY <2>4, <2>5
<1>7. /\ flushing'.st = "writing" /\ flushing'.left = flushing.left \ {c}
      /\ flushing'.migrating = flushing.migrating /\ flushing'.snapshot = flushing.snapshot
      /\ flushing' \in [st : {"idle", "writing"}, keys : SUBSET Conversation,
                        left : SUBSET Conversation, snapshot : Versions, migrating : BOOLEAN]
  BY <1>1, <1>2, <1>5 DEF LayoutTypes
<1>8. content' \in Versions /\ kept' \in Versions
  BY <1>1, <1>5 DEF LayoutTypes, Versions
<1>9. LayoutTypes'
  BY <1>1, <1>5, <1>6, <1>7, <1>8 DEF LayoutTypes
<1>10. ASSUME NEW d \in Conversation
       PROVE  /\ d = c => content'[d] = n /\ kept'[d] = k /\ flushing.snapshot[d] = n
              /\ d # c => content'[d] = content[d] /\ kept'[d] = kept[d]
                          /\ (d \in Elements(paths') <=> d \in Elements(paths))
              /\ mem[d] \in Nat /\ content[d] \in Nat /\ kept[d] \in Nat /\ promised[d] \in Nat
              /\ flushing.snapshot[d] \in Nat /\ legacy.of[d] \in Nat /\ changes \in Nat
  BY <1>1, <1>3, <1>5, <1>6 DEF LayoutTypes, Versions
<1>11. up /\ (mem[c] # 0 => mem[c] >= n) /\ kept[c] <= n
       /\ (legacy.st # "gone" => flushing.migrating)
  BY <1>1, <1>2, <1>3 DEF WritingInv
<1>12. k <= n /\ (k # 0 => k = n /\ mem[c] >= n /\ c \in Elements(cache)
                           /\ c \in Elements(paths'))
  <2>1. InCache(c) => c \in Elements(cache)
    BY DEF InCache, Elements
  <2>2. CASE InCache(c) /\ mem[c] # 0
    BY <1>4, <1>6, <1>11, <2>1, <2>2
  <2>3. CASE ~ (InCache(c) /\ mem[c] # 0)
    BY <1>4, <2>3
  <2> QED
    BY <2>2, <2>3
<1>13. NumbersInv'
  <2> SUFFICES ASSUME NEW d \in Conversation
               PROVE  /\ mem[d] <= changes + 1 /\ content'[d] <= changes + 1
                      /\ legacy.of[d] <= changes + 1 /\ kept'[d] <= changes + 1
                      /\ flushing.snapshot[d] <= changes + 1
    BY <1>5, <1>7 DEF NumbersInv
  <2>1. /\ mem[d] <= changes + 1 /\ content[d] <= changes + 1 /\ legacy.of[d] <= changes + 1
        /\ kept[d] <= changes + 1 /\ flushing.snapshot[d] <= changes + 1
    BY <1>1 DEF NumbersInv
  <2> QED
    BY <1>10, <1>12, <2>1
<1>14. KeptInv'
  <2> SUFFICES ASSUME NEW d \in Conversation, kept'[d] # 0
               PROVE  /\ (IF d \in Elements(paths') THEN content'[d] ELSE legacy.of[d]) = kept'[d]
                      /\ d \in Elements(cache) /\ mem[d] >= kept'[d]
    BY <1>5 DEF KeptInv
  <2>1. CASE d = c
    BY <1>10, <1>12, <2>1
  <2>2. CASE d # c
    BY <1>1, <1>10, <1>11, <2>2 DEF KeptInv
  <2> QED
    BY <2>1, <2>2
<1>15. WritingInv'
  <2> SUFFICES ASSUME NEW d \in Conversation
               PROVE  /\ mem[d] # 0 => mem[d] >= flushing.snapshot[d]
                      /\ d \in flushing.left \ {c} => kept'[d] <= flushing.snapshot[d]
                      /\ flushing.migrating /\ kept'[d] # 0 =>
                             /\ flushing.snapshot[d] # 0
                             /\ d \in flushing.left \ {c} \/ d \in Elements(paths')
    BY <1>5, <1>7, <1>11 DEF WritingInv
  <2>1. /\ mem[d] # 0 => mem[d] >= flushing.snapshot[d]
        /\ d \in flushing.left => kept[d] <= flushing.snapshot[d]
        /\ flushing.migrating /\ kept[d] # 0 =>
               flushing.snapshot[d] # 0 /\ (d \in flushing.left \/ d \in Elements(paths))
    BY <1>1, <1>2 DEF WritingInv
  <2>2. CASE d = c
    BY <1>10, <1>12, <2>1, <2>2
  <2>3. CASE d # c
    BY <1>10, <2>1, <2>3
  <2> QED
    BY <2>2, <2>3
<1>16. ASSUME NEW d \in Conversation
       PROVE  /\ promised[d] <= kept'[d]
              /\ promised[d] # 0 => (d \in Elements(paths) => d \in Elements(paths'))
  <2>1. promised[d] <= kept[d]
    BY <1>1 DEF PageInv
  <2>2. CASE d # c
    BY <1>10, <2>1, <2>2
  <2>3. CASE d = c /\ promised[d] = 0
    BY <1>10, <2>3
  <2>4. CASE d = c /\ promised[d] # 0
    <3>1. kept[c] # 0
      BY <1>10, <2>1, <2>4
    <3>2. c \in Elements(cache) /\ mem[c] # 0
      BY <1>1, <1>10, <1>11, <3>1 DEF KeptInv
    <3>3. InCache(c)
      BY <3>2 DEF InCache, Elements
    <3>4. k = n /\ n # 0
      BY <1>4, <1>10, <1>11, <3>1, <3>2, <3>3
    <3> QED
      BY <1>10, <1>11, <1>12, <2>1, <2>4, <3>4
  <2> QED
    BY <2>2, <2>3, <2>4
<1>17. PageInv'
  BY <1>1, <1>5, <1>16, PageStays
<1> QED
  BY <1>9, <1>13, <1>14, <1>15, <1>17 DEF LayoutInv

\* prune_conversation_files: nobody was promised anything that the flush has not written
LEMMA PruneFileInv == ASSUME LayoutInv, NEW c \in Conversation, PruneFile(c) PROVE LayoutInv'
<1>1. LayoutTypes /\ NumbersInv /\ KeptInv /\ WritingInv /\ PageInv
  BY DEF LayoutInv
<1>2. /\ flushing.st = "writing" /\ c \in Stale
      /\ paths' = OthersOf(paths, c) /\ content' = [content EXCEPT ![c] = 0]
      /\ UNCHANGED <<up, cache, mem, dirtyKeys, legacy, flushing, reading, changes, kept, promised>>
  BY DEF PruneFile
<1>3. paths \in Seq(Conversation)
  BY <1>1 DEF LayoutTypes
<1>4. paths' \in Seq(Conversation) /\ Elements(paths') = Elements(paths) \ {c}
  BY <1>2, <1>3, WithoutLeaves DEF OthersOf
<1>5. content' \in Versions
  BY <1>1, <1>2 DEF LayoutTypes, Versions
<1>6. LayoutTypes'
  BY <1>1, <1>2, <1>4, <1>5 DEF LayoutTypes
<1>7. kept[c] = 0
  BY <1>1, <1>2 DEF Stale, WritingInv
<1>8. ASSUME NEW d \in Conversation
      PROVE  /\ d = c => content'[d] = 0
             /\ d # c => /\ content'[d] = content[d]
                         /\ d \in Elements(paths') <=> d \in Elements(paths)
             /\ kept[d] \in Nat /\ promised[d] \in Nat /\ changes \in Nat
  BY <1>1, <1>2, <1>4 DEF LayoutTypes, Versions
<1>9. NumbersInv'
  BY <1>1, <1>2, <1>8 DEF NumbersInv
<1>10. KeptInv'
  BY <1>1, <1>2, <1>7, <1>8 DEF KeptInv
<1>11. WritingInv'
  BY <1>1, <1>2, <1>7, <1>8 DEF WritingInv
<1>12. ASSUME NEW d \in Conversation
       PROVE  /\ promised[d] <= kept[d]
              /\ promised[d] # 0 => (d \in Elements(paths) => d \in Elements(paths'))
  BY <1>1, <1>7, <1>8 DEF PageInv
<1>13. PageInv'
  BY <1>1, <1>2, <1>12, PageStays
<1> QED
  BY <1>6, <1>9, <1>10, <1>11, <1>13 DEF LayoutInv

\* the legacy file goes when all that must not be lost has a file of its own
LEMMA RemoveLegacyInv == ASSUME LayoutInv, RemoveLegacy PROVE LayoutInv'
<1>1. LayoutTypes /\ NumbersInv /\ KeptInv /\ WritingInv /\ PageInv
  BY DEF LayoutInv
<1>2. /\ flushing.st = "writing" /\ flushing.left = {} /\ legacy.st # "gone"
      /\ legacy' = [st |-> "gone", of |-> Nowhere]
      /\ UNCHANGED <<up, cache, mem, dirtyKeys, paths, content, flushing, reading, changes, kept,
                     promised>>
  BY DEF RemoveLegacy
<1>3. Nowhere \in Versions /\ \A c \in Conversation : Nowhere[c] = 0
  BY DEF Nowhere, Versions
<1>4. LayoutTypes'
  BY <1>1, <1>2, <1>3 DEF LayoutTypes
<1>5. ASSUME NEW c \in Conversation, kept[c] # 0 PROVE c \in Elements(paths)
  BY <1>1, <1>2, <1>5 DEF WritingInv
<1>6. \A c \in Conversation : legacy'.of[c] = 0
  BY <1>2, <1>3
<1>7. NumbersInv'
  <2>1. changes \in Nat
    BY <1>1 DEF LayoutTypes
  <2> QED
    BY <1>1, <1>2, <1>6, <2>1 DEF NumbersInv
<1>8. KeptInv'
  BY <1>1, <1>2, <1>5 DEF KeptInv
<1>9. WritingInv' /\ PageInv'
  BY <1>1, <1>2 DEF WritingInv, PageInv
<1> QED
  BY <1>4, <1>7, <1>8, <1>9 DEF LayoutInv

\* a flush ends, or the bot does
LEMMA EndsInv == ASSUME LayoutInv, FlushEnds \/ BotEnds PROVE LayoutInv'
<1>1. LayoutTypes /\ NumbersInv /\ KeptInv /\ WritingInv /\ PageInv
  BY DEF LayoutInv
<1>2. Nowhere \in Versions /\ \A c \in Conversation : Nowhere[c] = 0
  BY DEF Nowhere, Versions
<1>3. /\ flushing' = NotFlushing /\ dirtyKeys' \in SUBSET Conversation
      /\ UNCHANGED <<legacy, paths, content, reading, changes, kept, promised>>
  BY <1>1 DEF FlushEnds, BotEnds, LayoutTypes
<1>4. \/ up' = FALSE /\ cache' = <<>> /\ mem' = Nowhere
      \/ UNCHANGED <<up, cache, mem>>
  BY DEF FlushEnds, BotEnds
<1>5. /\ flushing'.st = "idle" /\ flushing'.snapshot = Nowhere
      /\ flushing' \in [st : {"idle", "writing"}, keys : SUBSET Conversation,
                        left : SUBSET Conversation, snapshot : Versions, migrating : BOOLEAN]
  BY <1>2, <1>3 DEF NotFlushing
<1>6. cache' \in Seq(Conversation) /\ mem' \in Versions /\ up' \in BOOLEAN
  <2>1. CASE up' = FALSE /\ cache' = <<>> /\ mem' = Nowhere
    <3>1. <<>> \in Seq(Conversation) /\ FALSE \in BOOLEAN
      OBVIOUS
    <3> QED
      BY <1>2, <2>1, <3>1
  <2>2. CASE UNCHANGED <<up, cache, mem>>
    BY <1>1, <2>2 DEF LayoutTypes
  <2> QED
    BY <1>4, <2>1, <2>2
<1>7. LayoutTypes'
  BY <1>1, <1>3, <1>5, <1>6 DEF LayoutTypes
<1>8. NumbersInv'
  <2>1. changes \in Nat
    BY <1>1 DEF LayoutTypes
  <2> QED
    BY <1>1, <1>2, <1>3, <1>4, <1>5, <2>1 DEF NumbersInv
<1>9. KeptInv'
  BY <1>1, <1>3, <1>4 DEF KeptInv
<1>10. WritingInv' /\ PageInv'
  BY <1>1, <1>3, <1>5 DEF WritingInv, PageInv
<1> QED
  BY <1>7, <1>8, <1>9, <1>10 DEF LayoutInv

\* load_history_state: what has a file is read from it, the rest from the legacy file
LEMMA LoadHistoryInv == ASSUME LayoutInv, LoadHistory PROVE LayoutInv'
<1>1. LayoutTypes /\ NumbersInv /\ KeptInv /\ WritingInv /\ PageInv
  BY DEF LayoutInv
<1>2. PICK dir : dir = Newest(paths, MaxConversations)
  OBVIOUS
<1>3. dir \in Seq(Conversation) /\ Elements(dir) \subseteq Elements(paths)
      /\ Elements(paths) \subseteq Conversation
  <2>1. paths \in Seq(Conversation) /\ MaxConversations \in Nat
    BY <1>1, HistoryLayoutAssumption DEF LayoutTypes
  <2> QED
    BY <1>2, <2>1, NewestElements, MembersAreOfType
<1>4. PICK old : old = FromLegacy(dir)
  OBVIOUS
<1>5. old \in SUBSET Conversation
      /\ \A c \in Conversation : c \in old <=> legacy.of[c] # 0 /\ c \notin Elements(dir)
  BY <1>4 DEF FromLegacy
<1>6. Cardinality(old) \in Nat
  <2>1. IsFiniteSet(old)
    BY <1>5, HistoryLayoutAssumption, FS_Subset
  <2> QED
    BY <2>1, FS_CardinalityType
<1>7. legacy.st # "damaged"
  BY <1>1 DEF LayoutTypes
<1>8. PICK more \in [1 .. Cardinality(old) -> old] :
        /\ Elements(more) = old
        /\ LET all == dir \o more
               now == Newest(all, MaxConversations)
           IN  /\ cache' = now
               /\ mem' = [c \in Conversation |->
                    IF c \notin Elements(now) THEN 0
                    ELSE IF c \in Elements(dir) THEN content[c] ELSE legacy.of[c]]
               /\ paths' = Without(dir, Elements(all) \ Elements(now))
               /\ content' = [c \in Conversation |-> IF c \in Elements(now) THEN content[c] ELSE 0]
               /\ Forget((Elements(all) \ Elements(now)) \cup (Elements(paths) \ Elements(dir)))
  BY <1>2, <1>4, <1>7 DEF LoadHistory
<1>9. more \in Seq(Conversation)
  <2>1. more \in Seq(old)
    BY <1>6, <1>8
  <2> QED
    BY <1>5, <1>6, <1>8, <2>1
<1>10. PICK all : all = dir \o more
  OBVIOUS
<1>11. all \in Seq(Conversation) /\ Elements(all) = Elements(dir) \cup old
  BY <1>3, <1>8, <1>9, <1>10, JoinedElements
<1>12. PICK now : now = Newest(all, MaxConversations)
  OBVIOUS
<1>13. now \in Seq(Conversation) /\ Elements(now) \subseteq Elements(all)
  BY <1>11, <1>12, NewestElements, HistoryLayoutAssumption
<1>14. PICK cut : cut = Elements(all) \ Elements(now)
  OBVIOUS
<1>15. PICK gone : gone = cut \cup (Elements(paths) \ Elements(dir))
  OBVIOUS
<1>16. /\ cache' = now
       /\ mem' = [c \in Conversation |->
            IF c \notin Elements(now) THEN 0
            ELSE IF c \in Elements(dir) THEN content[c] ELSE legacy.of[c]]
       /\ paths' = Without(dir, cut)
       /\ content' = [c \in Conversation |-> IF c \in Elements(now) THEN content[c] ELSE 0]
       /\ kept' = [c \in Conversation |-> IF c \in gone THEN 0 ELSE kept[c]]
       /\ promised' = [c \in Conversation |-> IF c \in gone THEN 0 ELSE promised[c]]
  BY <1>8, <1>10, <1>12, <1>14, <1>15 DEF Forget
<1>17. /\ ~ up /\ up' = TRUE
       /\ UNCHANGED <<dirtyKeys, legacy, flushing, reading, changes>>
  BY DEF LoadHistory
<1>18. paths' \in Seq(Conversation) /\ Elements(paths') = Elements(dir) \ cut
  BY <1>3, <1>16, WithoutLeaves
<1>19. /\ mem' \in Versions /\ content' \in Versions /\ kept' \in Versions
       /\ promised' \in Versions
  BY <1>1, <1>16 DEF LayoutTypes, Versions
<1>20. LayoutTypes'
  BY <1>1, <1>13, <1>16, <1>17, <1>18, <1>19 DEF LayoutTypes
<1>21. ASSUME NEW c \in Conversation
       PROVE  /\ mem'[c] = IF c \notin Elements(now) THEN 0
                           ELSE IF c \in Elements(dir) THEN content[c] ELSE legacy.of[c]
              /\ content'[c] = IF c \in Elements(now) THEN content[c] ELSE 0
              /\ kept'[c] = IF c \in gone THEN 0 ELSE kept[c]
              /\ promised'[c] = IF c \in gone THEN 0 ELSE promised[c]
              /\ content[c] \in Nat /\ kept[c] \in Nat /\ promised[c] \in Nat
              /\ legacy.of[c] \in Nat /\ changes \in Nat
  BY <1>1, <1>16 DEF LayoutTypes, Versions
<1>22. NumbersInv'
  BY <1>1, <1>17, <1>21 DEF NumbersInv
<1>23. ASSUME NEW c \in Conversation, c \notin gone, kept[c] # 0
       PROVE  /\ c \in Elements(now) /\ (c \in Elements(paths') <=> c \in Elements(paths))
              /\ c \in Elements(dir) <=> c \in Elements(paths)
  <2>1. (IF c \in Elements(paths) THEN content[c] ELSE legacy.of[c]) = kept[c]
    BY <1>1, <1>23 DEF KeptInv
  <2>2. c \in Elements(dir) <=> c \in Elements(paths)
    BY <1>3, <1>15, <1>23
  <2>3. c \in Elements(all)
    BY <1>5, <1>11, <1>23, <2>1, <2>2
  <2> QED
    BY <1>14, <1>15, <1>18, <1>23, <2>2, <2>3
<1>24. KeptInv'
  <2> SUFFICES ASSUME NEW c \in Conversation, kept'[c] # 0
               PROVE  /\ (IF c \in Elements(paths') THEN content'[c] ELSE legacy.of[c]) = kept'[c]
                      /\ c \in Elements(now) /\ mem'[c] >= kept'[c]
    BY <1>16, <1>17 DEF KeptInv
  <2>1. c \notin gone /\ kept[c] # 0
    BY <1>21
  <2>2. /\ c \in Elements(now) /\ (c \in Elements(paths') <=> c \in Elements(paths))
        /\ c \in Elements(dir) <=> c \in Elements(paths)
    BY <1>23, <2>1
  <2>3. (IF c \in Elements(paths) THEN content[c] ELSE legacy.of[c]) = kept[c]
    BY <1>1, <2>1 DEF KeptInv
  <2> QED
    BY <1>21, <2>1, <2>2, <2>3
<1>25. WritingInv'
  BY <1>1, <1>17 DEF WritingInv
<1>26. ASSUME NEW c \in Conversation
       PROVE  /\ promised'[c] <= kept'[c]
              /\ promised'[c] # 0 => /\ promised'[c] = promised[c]
                                     /\ c \in Elements(paths) => c \in Elements(paths')
  <2>1. promised[c] <= kept[c]
    BY <1>1 DEF PageInv
  <2>2. promised'[c] # 0 => c \notin gone /\ kept[c] # 0
    BY <1>21, <2>1
  <2> QED
    BY <1>21, <1>23, <2>1, <2>2
<1>27. PageInv'
  BY <1>1, <1>17, <1>26, PageStays
<1> QED
  BY <1>20, <1>22, <1>24, <1>25, <1>27 DEF LayoutInv

-----------------------------------------------------------------------------
(* The layouts of the history: the steps of the page, and the theorems.     *)

\* a page reads the legacy file, lists the directory, reads the files and shows them
LEMMA PageStepInv ==
    ASSUME LayoutInv,
           \/ ReadLegacy \/ ListFiles \/ ShowPage
           \/ \E c \in Conversation : ReadFile(c)
    PROVE  LayoutInv'
<1>1. LayoutTypes /\ NumbersInv /\ KeptInv /\ WritingInv /\ PageInv
  BY DEF LayoutInv
<1>2. UNCHANGED <<up, cache, mem, dirtyKeys, legacy, paths, content, flushing, changes, kept>>
  BY DEF ReadLegacy, ListFiles, ShowPage, ReadFile
<1>3. Nowhere \in Versions /\ \A c \in Conversation : Nowhere[c] = 0
  BY DEF Nowhere, Versions
<1>4. paths \in Seq(Conversation) /\ Elements(paths) \subseteq Conversation
  BY <1>1, MembersAreOfType DEF LayoutTypes
<1>5. PICK Pages : Pages = [st : {"idle", "listing", "reading"}, old : Versions, new : Versions,
                            left : SUBSET Conversation]
  OBVIOUS
<1>6. reading \in Pages /\ promised \in Versions /\ kept \in Versions /\ content \in Versions
      /\ legacy.of \in Versions
  BY <1>1, <1>5 DEF LayoutTypes
<1>7. SUFFICES reading' \in Pages /\ promised' \in Versions /\ PageInv'
  <2>1. NumbersInv' /\ KeptInv' /\ WritingInv'
    BY <1>1, <1>2 DEF NumbersInv, KeptInv, WritingInv
  <2>2. LayoutTypes'
    BY <1>1, <1>2, <1>5, <1>7 DEF LayoutTypes
  <2> QED
    BY <1>7, <2>1, <2>2 DEF LayoutInv
<1>8. \A c \in Conversation : kept[c] \in Nat /\ promised[c] \in Nat /\ content[c] \in Nat
  BY <1>6 DEF Versions
<1>9. CASE ReadLegacy
  <2>1. /\ reading' = [st |-> "listing", old |-> legacy.of, new |-> Nowhere, left |-> {}]
        /\ promised' = kept
    BY <1>9 DEF ReadLegacy, NotReading
  <2>2. reading' \in Pages /\ promised' \in Versions
    BY <1>3, <1>5, <1>6, <2>1
  <2>3. \A c \in Conversation : kept[c] # 0 => c \in Elements(paths) \/ legacy.of[c] = kept[c]
    BY <1>1 DEF KeptInv
  <2>4. reading'.st = "listing" /\ reading'.old = legacy.of /\ reading'.new = Nowhere
    BY <2>1
  <2>5. PageInv'
    BY <1>2, <1>3, <1>8, <2>1, <2>3, <2>4 DEF PageInv
  <2> QED
    BY <2>2, <2>5
<1>10. CASE ListFiles
  <2>1. /\ reading.st = "listing" /\ promised' = promised
        /\ reading' = [reading EXCEPT !.st = "reading", !.left = Elements(paths)]
    BY <1>10 DEF ListFiles
  <2>2. /\ reading'.st = "reading" /\ reading'.left = Elements(paths)
        /\ reading'.old = reading.old /\ reading'.new = reading.new /\ reading' \in Pages
    BY <1>4, <1>5, <1>6, <2>1
  <2>3. PageInv'
    BY <1>1, <1>2, <2>1, <2>2 DEF PageInv
  <2> QED
    BY <1>6, <2>1, <2>2, <2>3
<1>11. ASSUME NEW c \in Conversation, ReadFile(c)
       PROVE  reading' \in Pages /\ promised' \in Versions /\ PageInv'
  <2>1. /\ reading.st = "reading" /\ c \in reading.left /\ promised' = promised
        /\ reading' = [reading EXCEPT !.left = @ \ {c}, !.new = [@ EXCEPT ![c] = content[c]]]
    BY <1>11 DEF ReadFile
  <2>2. reading.new \in Versions /\ content[c] \in Nat
    BY <1>5, <1>6, <1>8
  <2>3. PICK new \in Versions : new = [reading.new EXCEPT ![c] = content[c]]
    BY <2>2 DEF Versions
  <2>4. /\ reading'.st = "reading" /\ reading'.left = reading.left \ {c}
        /\ reading'.old = reading.old /\ reading'.new = new /\ reading' \in Pages
    BY <1>5, <1>6, <2>1, <2>3
  <2>5. \A d \in Conversation : new[d] = IF d = c THEN content[c] ELSE reading.new[d]
    BY <2>2, <2>3 DEF Versions
  <2>6. PageInv'
    <3> SUFFICES ASSUME NEW d \in Conversation
                 PROVE  /\ promised[d] <= kept[d]
                        /\ promised[d] # 0 =>
                             /\ d \in reading.left \ {c} => d \in Elements(paths)
                             /\ d \notin reading.left \ {c} =>
                                    \/ new[d] >= promised[d]
                                    \/ new[d] = 0 /\ reading.old[d] >= promised[d]
      BY <1>2, <2>1, <2>4 DEF PageInv
    <3>1. /\ promised[d] <= kept[d]
          /\ promised[d] # 0 =>
               /\ d \in reading.left => d \in Elements(paths)
               /\ d \notin reading.left =>
                      \/ reading.new[d] >= promised[d]
                      \/ reading.new[d] = 0 /\ reading.old[d] >= promised[d]
      BY <1>1, <2>1 DEF PageInv
    <3>2. CASE d # c
      BY <2>5, <3>1, <3>2
    <3>3. CASE d = c /\ promised[d] # 0
      <4>1. content[d] = kept[d]
        BY <1>1, <1>8, <2>1, <3>1, <3>3 DEF KeptInv
      <4> QED
        BY <1>8, <2>5, <3>1, <3>3, <4>1
    <3> QED
      BY <3>1, <3>2, <3>3
  <2> QED
    BY <1>6, <2>1, <2>4, <2>6
<1>12. CASE ShowPage
  <2>1. reading' = [st |-> "idle", old |-> Nowhere, new |-> Nowhere, left |-> {}]
        /\ promised' = Nowhere
    BY <1>12 DEF ShowPage, NotReading
  <2>2. reading' \in Pages /\ promised' \in Versions /\ reading'.st = "idle"
    BY <1>3, <1>5, <2>1
  <2>3. PageInv'
    BY <1>2, <1>3, <1>8, <2>1, <2>2 DEF PageInv
  <2> QED
    BY <2>2, <2>3
<1> QED
  BY <1>9, <1>10, <1>11, <1>12

\* at the start everything is where an older version or a crash left it
LEMMA LayoutInitInv == ~ Damage /\ LayoutInit => LayoutInv
<1>1. SUFFICES ASSUME ~ Damage, LayoutInit PROVE LayoutInv
  OBVIOUS
<1>2. PICK S \in SUBSET Conversation :
        legacy = [st |-> IF S = {} THEN "gone" ELSE "there",
                  of |-> [c \in Conversation |-> IF c \in S THEN 1 ELSE 0]]
  BY <1>1 DEF LayoutInit
<1>3. /\ up = FALSE /\ cache = <<>> /\ mem = Nowhere /\ dirtyKeys = {}
      /\ paths = <<>> /\ content = [d \in Conversation |-> 0]
      /\ flushing = NotFlushing /\ reading = NotReading /\ changes = 0 /\ promised = Nowhere
      /\ kept = [c \in Conversation |-> IF content[c] # 0 THEN content[c] ELSE legacy.of[c]]
  <2>1. legacy.st # "damaged"
    BY <1>2
  <2> QED
    BY <1>1, <2>1 DEF LayoutInit
<1>4. Nowhere \in Versions /\ \A c \in Conversation : Nowhere[c] = 0
  BY DEF Nowhere, Versions
<1>5. /\ legacy.st \in {"gone", "there"} /\ legacy.of \in Versions
      /\ legacy \in [st : {"gone", "there"}, of : Versions]
      /\ \A c \in Conversation : legacy.of[c] \in 0 .. 1
  BY <1>2 DEF Versions
<1>6. content \in Versions /\ kept \in Versions
      /\ \A c \in Conversation : content[c] = 0 /\ kept[c] = legacy.of[c]
  BY <1>3, <1>5 DEF Versions
<1>7. /\ flushing = [st |-> "idle", keys |-> {}, left |-> {}, snapshot |-> Nowhere,
                     migrating |-> FALSE]
      /\ reading = [st |-> "idle", old |-> Nowhere, new |-> Nowhere, left |-> {}]
  BY <1>3 DEF NotFlushing, NotReading
<1>8. LayoutTypes
  <2>1. <<>> \in Seq(Conversation)
    OBVIOUS
  <2>2. flushing \in [st : {"idle", "writing"}, keys : SUBSET Conversation,
                     left : SUBSET Conversation, snapshot : Versions, migrating : BOOLEAN]
    BY <1>4, <1>7
  <2>3. reading \in [st : {"idle", "listing", "reading"}, old : Versions, new : Versions,
                    left : SUBSET Conversation]
    BY <1>4, <1>7
  <2>4. up \in BOOLEAN /\ changes \in Nat
    BY <1>3
  <2> QED
    BY <1>3, <1>4, <1>5, <1>6, <2>1, <2>2, <2>3, <2>4 DEF LayoutTypes
<1>9. Elements(paths) = {}
  BY <1>3 DEF Elements
<1>10. NumbersInv
  BY <1>3, <1>4, <1>5, <1>6, <1>7 DEF NumbersInv
<1>11. KeptInv
  BY <1>3, <1>6, <1>9 DEF KeptInv
<1>12. WritingInv
  BY <1>7 DEF WritingInv
<1>13. PageInv
  BY <1>3, <1>4, <1>5, <1>6, <1>7 DEF PageInv
<1> QED
  BY <1>8, <1>10, <1>11, <1>12, <1>13 DEF LayoutInv

\* the steps of the bot, its crashes and starts, and of the page
LEMMA LayoutInvStep == LayoutInv /\ [LayoutNext]_layoutVars => LayoutInv'
<1>1. SUFFICES ASSUME LayoutInv, [LayoutNext]_layoutVars PROVE LayoutInv'
  OBVIOUS
<1>2. CASE UNCHANGED layoutVars
  BY <1>1, <1>2 DEF layoutVars, LayoutInv, LayoutTypes, NumbersInv, KeptInv, WritingInv, PageInv
<1>3. CASE \E c \in Conversation : Change(c) \/ ReadOne(c) \/ ClearHistory(c)
  BY <1>1, <1>3, ChangeInv, ClearHistoryInv
<1>4. CASE \E c \in Conversation : WriteConversation(c) \/ PruneFile(c) \/ ReadFile(c)
  BY <1>1, <1>4, WriteConversationInv, PruneFileInv, PageStepInv
<1>5. CASE ReadAll \/ BeginFlush \/ RemoveLegacy \/ FlushEnds \/ BotEnds \/ LoadHistory
  BY <1>1, <1>5, ReadAllInv, BeginFlushInv, RemoveLegacyInv, EndsInv, LoadHistoryInv
<1>6. CASE ReadLegacy \/ ListFiles \/ ShowPage
  BY <1>1, <1>6, PageStepInv
<1> QED
  BY <1>1, <1>2, <1>3, <1>4, <1>5, <1>6 DEF LayoutNext

\* so it always holds, unless the legacy file is damaged
LEMMA LayoutInvariant == ~ Damage /\ LayoutSpec => []LayoutInv
<1>1. ~ Damage /\ LayoutInit => LayoutInv
  BY LayoutInitInv
<1>2. LayoutInv /\ [LayoutNext]_layoutVars => LayoutInv'
  BY LayoutInvStep
<1> QED
  BY <1>1, <1>2, PTL DEF LayoutSpec

\* Of a readable legacy file, HistoryStore's migration loses nothing, however often it is
\* interrupted and begun again: what is stored of a conversation that was neither evicted nor
\* cleared stays stored, and a bot that is up has it or something newer.
THEOREM StoredHistoryIsKeptAlways == ~ Damage /\ LayoutSpec => []StoredHistoryIsKept
<1>1. LayoutInv => StoredHistoryIsKept
  <2> SUFFICES ASSUME LayoutInv, NEW c \in Conversation, kept[c] # 0
               PROVE  Stored(c) = kept[c] /\ (up => InCache(c) /\ mem[c] >= kept[c])
    BY DEF StoredHistoryIsKept
  <2>1. /\ HasFile(c) <=> c \in Elements(paths)
        /\ InCache(c) <=> c \in Elements(cache)
    BY DEF HasFile, InCache, Elements
  <2> QED
    BY <2>1 DEF LayoutInv, KeptInv, Stored
<1> QED
  BY <1>1, LayoutInvariant, PTL

\* load_history_raw, which reads the legacy file first and lets the directory win, misses none
\* of these and shows none in an older version, whatever the bot does meanwhile.
THEOREM PagesShowStoredHistoryAlways == ~ Damage /\ LayoutSpec => []PagesShowStoredHistory
<1>1. LayoutInv => PagesShowStoredHistory
  <2> SUFFICES ASSUME LayoutInv, PageIsRead, NEW c \in Conversation
               PROVE  Merged(reading.old, reading.new)[c] >= promised[c]
    BY DEF PagesShowStoredHistory
  <2>1. reading.st = "reading" /\ reading.left = {}
    BY DEF PageIsRead
  <2>2. /\ Merged(reading.old, reading.new)[c] = IF reading.new[c] # 0 THEN reading.new[c]
                                                 ELSE reading.old[c]
        /\ reading.new[c] \in Nat /\ reading.old[c] \in Nat /\ promised[c] \in Nat
    BY DEF LayoutInv, LayoutTypes, Versions, Merged
  <2>3. promised[c] # 0 => \/ reading.new[c] >= promised[c]
                           \/ reading.new[c] = 0 /\ reading.old[c] >= promised[c]
    BY <2>1 DEF LayoutInv, PageInv
  <2> QED
    BY <2>2, <2>3
<1> QED
  BY <1>1, LayoutInvariant, PTL
=============================================================================
