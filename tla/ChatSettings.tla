---------------------------- MODULE ChatSettings ----------------------------
(***************************************************************************)
(* What a chat request runs with: the configuration file, which requests   *)
(* rewrite and every chat reads anew (src/src/server.rs, main.rs), the     *)
(* skill that is locked, the route through router.rs, and the file of the  *)
(* model used last (model_state.rs).                                       *)
(*                                                                         *)
(* Of the configuration the model, auto_route and persist_dir are kept,    *)
(* which stand for all that is read per request; the list of presets is    *)
(* fixed.  The handlers of one runtime thread interleave at their awaits:  *)
(* a chat has one, the call of the router's model.                         *)
(***************************************************************************)
EXTENDS Router

CONSTANTS
    Chat,       \* requests at one time
    Model,      \* models, as their endpoint and name
    Listed,     \* the models under config.models
    NoModel,    \* the preset "" or the one of the default; no last model
    Dir,        \* persist_dir
    Fallback,   \* ".sessions"
    Patches,    \* what the panels of a client save at once
    Default,    \* the settings of config/default.yaml
    Keep,       \* a patch leaves the setting out
    AnySkill,   \* active_skill_name is "auto"
    Unknown,    \* active_skill_name is in no list, such as "default"
    Absent,     \* there is no file yet
    Unusable,   \* its text is no Config: it was cut off, a section is missing
    Void        \* nothing is promised

Settings == [model : Model, auto : BOOLEAN, dir : Dir]
Patch == [model : Model \cup {Keep}, auto : BOOLEAN \cup {Keep},
          dir : Dir \cup {Keep}]
Lock == Skill \cup {AnySkill, Unknown}

Idle == [state |-> "idle"]

ASSUME SettingsAssumption ==
    /\ Listed \subseteq Model /\ NoModel \notin Model
    /\ Default \in Settings /\ Fallback \in Dir /\ Patches \subseteq Patch
    /\ Keep \notin Model \cup BOOLEAN \cup Dir
    /\ {AnySkill, Unknown} \cap Skill = {}
    /\ {Absent, Unusable, Void} \cap Settings = {} /\ Absent # Unusable

VARIABLES
    up,         \* the server runs
    file,       \* the configuration file
    startup,    \* ServerState.config
    last,       \* last-model.json of every directory
    lock,       \* ServerState.active_skill_name
    chat,       \* the requests that await the router, or are dispatched
    saved,      \* history: the settings as the answers to the saves promise
    lastUsed    \* history: the model of the last chat in this directory

serverVars == <<up, startup, lock, chat>>
vars == <<serverVars, file, last, saved, lastUsed>>

Asked == [settings : Settings \cup {Void}, lock : Lock,
          preset : Listed \cup {NoModel}, mentions : Texts]
Request == [state : {"routing", "sent"}, model : Model, skill : Skill \cup {NoSkill},
            candidates : SUBSET Skill, asked : Asked]

TypeOK ==
    /\ up \in BOOLEAN
    /\ file \in Settings \cup {Absent, Unusable}
    /\ startup \in Settings
    /\ last \in [Dir -> Model \cup {NoModel}]
    /\ lock \in Lock
    /\ chat \in [Chat -> Request \cup {Idle}]
    /\ saved \in Settings \cup {Void}
    /\ lastUsed \in Model \cup {NoModel}

Init ==
    /\ up = FALSE /\ file = Absent /\ startup = Default
    /\ last = [d \in Dir |-> NoModel]
    /\ lock = AnySkill /\ chat = [c \in Chat |-> Idle]
    /\ saved = Void /\ lastUsed = NoModel

-----------------------------------------------------------------------------
(* The file                                                                *)

\* state_path, where content is what the file holds
DirOf(content) == IF content \in Settings THEN content.dir ELSE Fallback

\* History: another directory has another last model.
Moved(content) ==
    lastUsed' = IF DirOf(content) = DirOf(file) THEN lastUsed ELSE NoModel

\* Mutant of Merged: what the patch leaves out is lost.
BugMerged(settings, patch) ==
    [f \in DOMAIN settings |->
        IF patch[f] = Keep THEN Default[f] ELSE patch[f]]

\* merge_json
Merged(settings, patch) ==
    [f \in DOMAIN settings |->
        IF patch[f] = Keep THEN settings[f] ELSE patch[f]]

\* POST /api/config. A patch does not make a Config of what was none, but
\* the answer is the same.
Save(patch) ==
    /\ up
    /\ file' = IF file \in Settings THEN Merged(file, patch) ELSE Unusable
    /\ saved' = IF saved = Void THEN Void
                ELSE [model |-> IF patch.model = Keep THEN saved.model ELSE patch.model,
                      auto |-> IF patch.auto = Keep THEN saved.auto ELSE patch.auto,
                      dir |-> IF patch.dir = Keep THEN saved.dir ELSE patch.dir]
    /\ Moved(file')
    /\ UNCHANGED <<serverVars, last>>

\* POST /api/config/raw, which accepts any YAML. POST /api/config/path has
\* the same effect, with what another file holds: its answer wants a restart,
\* and the path is resolved at every read.
SaveRaw(content) ==
    /\ up
    /\ file' = content
    /\ saved' = IF content = Unusable THEN Void ELSE content
    /\ Moved(content)
    /\ UNCHANGED <<serverVars, last>>

-----------------------------------------------------------------------------
(* The process                                                             *)

\* load_or_init_config. The skill is the one of the command line or of the
\* configuration, if there is one of that name.
Boot(name) ==
    /\ ~up /\ up' = TRUE
    /\ file' = IF file = Absent THEN Default ELSE file
    /\ startup' = IF file \in Settings THEN file ELSE Default
    /\ lock' = name
    /\ saved' = IF file = Absent THEN Default ELSE saved
    /\ Moved(file')
    /\ UNCHANGED <<last, chat>>

\* The process ends, perhaps in the middle of a write of the file.
Crash(content) ==
    /\ up /\ up' = FALSE
    /\ file' = content
    /\ saved' = IF content = Unusable THEN Void ELSE saved
    /\ Moved(content)
    /\ chat' = [c \in Chat |-> Idle]
    /\ UNCHANGED <<startup, lock, last>>

-----------------------------------------------------------------------------
(* Chats                                                                   *)

\* POST /api/skills/active
SwitchSkill(name) ==
    /\ up
    /\ lock' = name
    /\ UNCHANGED <<up, startup, chat, file, last, saved, lastUsed>>

\* load_config_file, or what the server started with
Config == IF file \in Settings THEN file ELSE startup

\* A preset that is not listed counts as the default.
ModelOf(preset) == IF preset \in Listed THEN preset ELSE Config.model

\* The skills the router chooses from
Scope(name) == IF name = AnySkill THEN Skill ELSE Skill \cap {name}

\* The skill before the router, or without it
Base(name) == IF name \in Skill THEN name ELSE NoSkill

\* Mutant of SaveLastModel: the model is saved before the preset is applied.
BugSaveLastModel(model) == [last EXCEPT ![DirOf(file)] = Config.model]

\* save_last_model, by a rename
SaveLastModel(model) == [last EXCEPT ![DirOf(file)] = model]

\* handle_chat, to the call of the router's model or, without one, to the
\* dispatcher
Ask(c, preset, mentions) ==
    /\ up /\ chat[c] = Idle
    /\ LET candidates == Scope(lock)
           named == mentions \cap candidates
           calls == Config.auto /\ candidates # {} /\ named = {}
       IN  chat' = [chat EXCEPT ![c] =
              [state |-> IF calls THEN "routing" ELSE "sent",
               model |-> ModelOf(preset),
               skill |-> IF ~Config.auto THEN Base(lock)
                         ELSE IF named # {} THEN RuleMatch(named)
                         ELSE NoSkill,
               candidates |-> candidates,
               asked |-> [settings |-> saved, lock |-> lock, preset |-> preset,
                          mentions |-> mentions]]]
    /\ last' = SaveLastModel(ModelOf(preset))
    /\ lastUsed' = ModelOf(preset)
    /\ UNCHANGED <<up, startup, lock, file, saved>>

\* Mutant of Routed: the lock is read again after the answer.
BugRouted(c, reply) ==
    /\ chat[c].state = "routing"
    /\ chat' = [chat EXCEPT ![c].state = "sent",
                            ![c].skill = Judged(reply, Scope(lock))]
    /\ UNCHANGED <<up, startup, lock, file, last, saved, lastUsed>>

\* The router has returned, with a skill or none.
Routed(c, reply) ==
    /\ chat[c].state = "routing"
    /\ chat' = [chat EXCEPT ![c].state = "sent",
                            ![c].skill = Judged(reply, chat[c].candidates)]
    /\ UNCHANGED <<up, startup, lock, file, last, saved, lastUsed>>

\* The turn is over, or its client has left while the router was awaited.
Leave(c) ==
    /\ chat[c] # Idle
    /\ chat' = [chat EXCEPT ![c] = Idle]
    /\ UNCHANGED <<up, startup, lock, file, last, saved, lastUsed>>

-----------------------------------------------------------------------------
Next ==
    \/ \E p \in Patches : Save(p)
    \/ \E content \in Settings \cup {Unusable} : SaveRaw(content)
    \/ \E content \in {file, Unusable} : Crash(content)
    \/ \E name \in Lock : Boot(name) \/ SwitchSkill(name)
    \/ \E c \in Chat :
          \/ \E preset \in Listed \cup {NoModel}, mentions \in Texts :
                Ask(c, preset, mentions)
          \/ \E reply \in Skill \cup {NoSkill} : Routed(c, reply)
          \/ Leave(c)

Spec == Init /\ [][Next]_vars
=============================================================================
