------------------------- MODULE ChatSettingsProps --------------------------
(* What a chat request promises about its settings and its skill.          *)
EXTENDS ChatSettings

Sent == {c \in Chat : chat[c].state = "sent"}

\* server.rs: "Config saved. Applied on next chat request (hot-reload)": a
\* chat runs with the model of the settings as saved before it was asked,
\* or with the preset it names, and with the routing they say, whatever else
\* was saved between and after, and across restarts. It promises nothing
\* while the file is none the program can read.
ObeysSaved ==
    \A c \in Sent :
       LET a == chat[c].asked
       IN  a.settings # Void =>
              /\ chat[c].model = IF a.preset \in Listed THEN a.preset
                                 ELSE a.settings.model
              /\ ~a.settings.auto => chat[c].skill = Base(a.lock)

\* README: a lock "narrows the candidate set to that one skill", "an explicit
\* skill-name mention wins": the skill of a chat is the one that was locked
\* when it was asked, or any if none was, and with routing on, one that the
\* text mentions before any other, the most specific of them. Switching the
\* lock while the router is awaited changes nothing.
RoutesAsTold ==
    \A c \in Sent :
       LET a == chat[c].asked
           named == a.mentions \cap Scope(a.lock)
           s == chat[c].skill
       IN  /\ s # NoSkill => s \in Scope(a.lock)
           /\ named # {} /\ a.settings # Void /\ a.settings.auto =>
                 /\ s \in named
                 /\ \A r \in named : Length[r] <= Length[s]
                 /\ \A r \in named : r < s => Length[r] < Length[s]

\* model_state.rs: "the last effective model survives restarts": what the
\* list of presets shows as the default is the model of the last chat, as
\* long as the directory is the same.
Shown == IF last[DirOf(file)] # NoModel THEN last[DirOf(file)] ELSE Config.model

Remembered == lastUsed # NoModel => Shown = lastUsed

\* server.rs: the "default" model is whatever was used last: a chat with the
\* default uses the model that is shown for it. Not what the code does.
DefaultFollows ==
    [][\A c \in Chat :
          chat[c] = Idle /\ chat'[c] # Idle /\ chat'[c].asked.preset = NoModel =>
             chat'[c].model = Shown]_vars
=============================================================================
