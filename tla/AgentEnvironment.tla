-------------------------- MODULE AgentEnvironment --------------------------
(***************************************************************************)
(* What setup finds out about the agent before it asks anything            *)
(* (src/src/onboarding/detect-agent-env.ts, tool-discovery.ts): the        *)
(* harness, the provider, the tools and the sources of memory.  A scan is  *)
(* the set of the markers that the detection looks for: files, environment *)
(* variables, and dependencies of package.json.                            *)
(***************************************************************************)
EXTENDS Naturals, FiniteSets, Sequences

OpenClawSignals == {"openclaw.config.ts", "openclaw.config.json", ".openclaw/",
                    "openclaw.plugin.json", "dep openclaw"}
HermesSignals == {"HERMES_HOME", "hermes/config.yaml", "hermes/memories/", "dep hermes-agent"}
CloudKeys == {"ANTHROPIC_API_KEY", "OPENAI_API_KEY"}
LocalHosts == {"OLLAMA_HOST", "LM_STUDIO_HOST"}

\* The markers of each source of memory.
MemorySignals ==
  [ gbrain |-> {"gbrain/", "GBRAIN_DATABASE_URL", "dep gbrain"},
    mempalace |-> {"mempalace/", "mempalace in .mcp.json", "dep mempalace"},
    openclaw_native |-> {"MEMORY.md", "memory/*.md", ".openclaw/memory.json"},
    hermes_built_in |-> {"hermes/memories/MEMORY.md", "hermes/memories/USER.md"},
    hermes_active_provider |-> {"memory.provider"},
    markdown_vault |-> {"OBSIDIAN_VAULT_PATH", "PALACE_VAULTS", ".obsidian/"},
    mem0 |-> {"MEM0_API_KEY", "mem0.json", "dep mem0"},
    honcho |-> {"HONCHO_API_KEY", "honcho.json", "dep honcho-ai"},
    zep_graphiti |-> {"ZEP_API_KEY", "NEO4J_URI", "dep zep-cloud", "dep graphiti-core"},
    supermemory |-> {"supermemory in .mcp.json"},
    cognee |-> {"dep cognee"},
    letta |-> {"LETTA_API_KEY", "dep letta"} ]
MemoryKinds == DOMAIN MemorySignals

Markers == OpenClawSignals \cup HermesSignals \cup CloudKeys \cup LocalHosts
             \cup {"package.json"} \cup UNION {MemorySignals[k] : k \in MemoryKinds}

\* A project: its markers, the tools that its manifests name, and the servers of .mcp.json
\* with the tools that they would list.
ProjectOf(Actions) == [markers : SUBSET Markers, plugin : SUBSET Actions,
                       servers : SUBSET [name : Actions, remote : BOOLEAN, lists : SUBSET Actions]]

-----------------------------------------------------------------------------
\* Confidence in thirtieths.
Confidence(signals, weight, markers) ==
  LET found == Cardinality(signals \cap markers) IN IF found * weight < 30 THEN found * weight ELSE 30

detectOpenClaw(markers) == Confidence(OpenClawSignals, 10, markers)
detectHermes(markers) == Confidence(HermesSignals, 15, markers)
detectGenericNode(markers) == IF "package.json" \in markers THEN 9 ELSE 0

\* The sort is stable: of two harnesses found with the same confidence the one asked first.
detectHarness(markers) ==
  LET candidates == << <<"openclaw", detectOpenClaw(markers)>>, <<"hermes", detectHermes(markers)>>,
                       <<"generic", detectGenericNode(markers)>> >>
      found == {i \in 1 .. 3 : candidates[i][2] > 0}
      best == {i \in found : \A j \in found : candidates[j][2] =< candidates[i][2]}
  IN IF found = {} THEN "standalone"
     ELSE candidates[CHOOSE i \in best : \A j \in best : i =< j][1]

\* A cloud key overrides a local host.
suggestedMode(markers) ==
  IF markers \cap CloudKeys # {} THEN "direct"
  ELSE IF markers \cap LocalHosts # {} THEN "local" ELSE "disabled"

\* The manifests name the servers, and the plugin its tools.
detectToolsFromManifests(project) == {s.name : s \in project.servers} \cup project.plugin

\* With --discover-live the servers are asked; one that fails or is late adds nothing.
discoverLiveTools(project, allowRemote, answering) ==
  UNION {s.lists : s \in {s \in project.servers \cap answering : allowRemote \/ ~s.remote}}

detectMemorySources(markers) == {k \in MemoryKinds : MemorySignals[k] \cap markers # {}}

\* --memory-source; the sources it asks for are kept whether they were detected or not.
filterMemorySources(flag) ==
  CASE flag = "none" -> {}
    [] flag = "auto" -> MemoryKinds
    [] flag = "hermes" -> {"hermes_built_in", "hermes_active_provider"}
    [] flag = "generic-export" -> {}   \* no source of that kind is ever listed
    [] OTHER -> {flag} \cap MemoryKinds
=============================================================================
