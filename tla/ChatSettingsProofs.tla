------------------------- MODULE ChatSettingsProofs -------------------------
(***************************************************************************)
(* Proofs about ChatSettings, for any list of skills, any texts and any    *)
(* number of requests: its types, and the three promises.                  *)
(***************************************************************************)
EXTENDS ChatSettingsProps, WellFoundedInduction, TLAPS

-----------------------------------------------------------------------------
(* The rule of the router                                                  *)

\* A set of numbers has a least element.
LEMMA Least ==
    ASSUME NEW S, S \subseteq Nat, S # {}
    PROVE  \E x \in S : \A y \in S : x <= y
<1>1. PICK x \in S : \A y \in S : <<y, x>> \notin OpToRel(<, Nat)
    BY NatLessThanWellFounded, WFMin, Zenon
<1>2. ASSUME NEW y \in S PROVE ~ (y < x)
    <2>1. <<y, x>> \in Nat \X Nat
        OBVIOUS
    <2> QED BY <1>1, <2>1, Zenon DEF OpToRel
<1>3. \A y \in S : x <= y
    BY <1>2
<1> QED BY <1>3

\* Of the skills a text mentions one is better than all others.
LEMMA BestExists ==
    ASSUME NEW S, S \subseteq Skill, S # {}
    PROVE  \E s \in S : \A r \in S : Better(s, r)
<1> DEFINE Short == {MaxLength - Length[s] : s \in S}
<1>1. Short \subseteq Nat /\ Short # {}
    <2>1. \A s \in S : MaxLength - Length[s] \in Nat
        BY SkillAssumption
    <2> QED BY <2>1
<1>2. PICK x \in Short : \A y \in Short : x <= y
    <2> HIDE DEF Short
    <2> QED BY <1>1, Least
<1> DEFINE T == {s \in S : MaxLength - Length[s] = x}
<1>3. T \subseteq Nat /\ T # {}
    BY <1>2, SkillAssumption
<1>4. PICK s \in T : \A r \in T : s <= r
    <2> HIDE DEF T
    <2> QED BY <1>3, Least
<1>5. ASSUME NEW r \in S PROVE Better(s, r)
    <2>1. MaxLength - Length[s] <= MaxLength - Length[r]
        BY <1>2, <1>4
    <2>2. Length[s] = Length[r] => r \in T
        BY <1>4
    <2> QED BY <2>1, <2>2, <1>4, SkillAssumption DEF Better
<1> QED BY <1>5, <1>4

\* What rule_match returns
LEMMA RuleMatches ==
    ASSUME NEW S, S \subseteq Skill, S # {}
    PROVE  /\ RuleMatch(S) \in S
           /\ \A r \in S : Better(RuleMatch(S), r)
BY BestExists DEF RuleMatch

-----------------------------------------------------------------------------
(* The invariant                                                           *)

\* What was promised is what the file says, if it says anything.
FileSaid == saved = IF file \in Settings THEN file ELSE Void

\* A request that awaits the router was not decided by its text, and has
\* the candidates of the time it was asked.
Waits(r) ==
    /\ r.candidates = Scope(r.asked.lock)
    /\ r.asked.mentions \cap r.candidates = {}
    /\ r.asked.settings # Void => r.asked.settings.auto

ModelRight(r) ==
    r.asked.settings # Void =>
        r.model = IF r.asked.preset \in Listed THEN r.asked.preset
                  ELSE r.asked.settings.model

\* The two promises for one request
Right(r) ==
    LET a == r.asked
        named == a.mentions \cap Scope(a.lock)
    IN  /\ a.settings # Void /\ ~a.settings.auto => r.skill = Base(a.lock)
        /\ r.skill # NoSkill => r.skill \in Scope(a.lock)
        /\ named # {} /\ a.settings # Void /\ a.settings.auto =>
              /\ r.skill \in named
              /\ \A s \in named : Better(r.skill, s)

ChatsRight ==
    \A c \in Chat : chat[c] # Idle =>
       /\ ModelRight(chat[c])
       /\ chat[c].state = "routing" => Waits(chat[c])
       /\ chat[c].state = "sent" => Right(chat[c])

LastKept == lastUsed # NoModel => last[DirOf(file)] = lastUsed

IInv == TypeOK /\ FileSaid /\ ChatsRight /\ LastKept

-----------------------------------------------------------------------------
LEMMA InitOK == Init => IInv
<1> SUFFICES ASSUME Init PROVE IInv
    OBVIOUS
<1> QED
    BY SettingsAssumption, SkillAssumption
    DEF Init, IInv, TypeOK, FileSaid, ChatsRight, LastKept, Lock, Idle

\* A patch of settings gives settings.
LEMMA MergedType ==
    ASSUME NEW s \in Settings, NEW p \in Patch
    PROVE  Merged(s, p) =
             [model |-> IF p.model = Keep THEN s.model ELSE p.model,
              auto |-> IF p.auto = Keep THEN s.auto ELSE p.auto,
              dir |-> IF p.dir = Keep THEN s.dir ELSE p.dir]
           /\ Merged(s, p) \in Settings
<1>1. DOMAIN s = {"model", "auto", "dir"}
    BY DEF Settings
<1>2. Merged(s, p) =
             [model |-> IF p.model = Keep THEN s.model ELSE p.model,
              auto |-> IF p.auto = Keep THEN s.auto ELSE p.auto,
              dir |-> IF p.dir = Keep THEN s.dir ELSE p.dir]
    BY <1>1 DEF Merged
<1> QED BY <1>2 DEF Settings, Patch

\* Whatever changes the file forgets the last model of another directory.
LEMMA MovedKeeps ==
    ASSUME LastKept, lastUsed \in Model \cup {NoModel}, NEW content,
           file' = content, Moved(content), UNCHANGED last
    PROVE  LastKept' /\ lastUsed' \in Model \cup {NoModel}
BY DEF LastKept, Moved, DirOf

LEMMA SaveKeeps ==
    ASSUME IInv, NEW p \in Patches, Save(p)
    PROVE  IInv'
<1>1. p \in Patch
    BY SettingsAssumption
<1>2. LastKept' /\ lastUsed' \in Model \cup {NoModel}
    BY MovedKeeps DEF IInv, TypeOK, Save
<1>3. file' \in Settings \cup {Unusable} /\ FileSaid'
    <2>1. CASE file \in Settings
        <3>1. saved = file /\ file # Void
            BY <2>1, SettingsAssumption DEF IInv, FileSaid
        <3>2. file' = Merged(file, p) /\ file' \in Settings
            BY <2>1, <1>1, MergedType DEF Save
        <3>3. file' = [model |-> IF p.model = Keep THEN saved.model ELSE p.model,
                       auto |-> IF p.auto = Keep THEN saved.auto ELSE p.auto,
                       dir |-> IF p.dir = Keep THEN saved.dir ELSE p.dir]
            BY <2>1, <3>1, <3>2, <1>1, MergedType
        <3>4. saved' = file'
            BY <3>1, <3>3 DEF Save
        <3> QED BY <3>2, <3>4 DEF FileSaid
    <2>2. CASE file \notin Settings
        BY <2>2, SettingsAssumption DEF IInv, FileSaid, Save
    <2> QED BY <2>1, <2>2
<1>4. saved' \in Settings \cup {Void}
    BY <1>3 DEF FileSaid
<1> QED BY <1>2, <1>3, <1>4 DEF IInv, TypeOK, ChatsRight, Save, serverVars

LEMMA SaveRawKeeps ==
    ASSUME IInv, NEW content \in Settings \cup {Unusable}, SaveRaw(content)
    PROVE  IInv'
<1>1. LastKept' /\ lastUsed' \in Model \cup {NoModel}
    BY MovedKeeps DEF IInv, TypeOK, SaveRaw
<1>2. FileSaid' /\ saved' \in Settings \cup {Void}
    BY SettingsAssumption DEF SaveRaw, FileSaid
<1> QED BY <1>1, <1>2 DEF IInv, TypeOK, ChatsRight, SaveRaw, serverVars

LEMMA BootKeeps ==
    ASSUME IInv, NEW name \in Lock, Boot(name)
    PROVE  IInv'
<1>1. LastKept' /\ lastUsed' \in Model \cup {NoModel}
    BY MovedKeeps DEF IInv, TypeOK, Boot
<1>2. FileSaid' /\ saved' \in Settings \cup {Void}
    BY SettingsAssumption DEF Boot, FileSaid, IInv, TypeOK
<1> QED BY <1>1, <1>2, SettingsAssumption DEF IInv, TypeOK, ChatsRight, Boot

LEMMA CrashKeeps ==
    ASSUME IInv, NEW content \in {file, Unusable}, Crash(content)
    PROVE  IInv'
<1>1. LastKept' /\ lastUsed' \in Model \cup {NoModel}
    BY MovedKeeps DEF IInv, TypeOK, Crash
<1>2. FileSaid' /\ saved' \in Settings \cup {Void}
    BY SettingsAssumption DEF Crash, FileSaid, IInv, TypeOK
<1> QED BY <1>1, <1>2 DEF IInv, TypeOK, ChatsRight, Crash

LEMMA SwitchSkillKeeps ==
    ASSUME IInv, NEW name \in Lock, SwitchSkill(name)
    PROVE  IInv'
BY DEF IInv, TypeOK, FileSaid, ChatsRight, LastKept, SwitchSkill

LEMMA LeaveKeeps ==
    ASSUME IInv, NEW c \in Chat, Leave(c)
    PROVE  IInv'
<1>1. \A d \in Chat : chat'[d] = IF d = c THEN Idle ELSE chat[d]
    BY DEF Leave, IInv, TypeOK
<1>2. ChatsRight'
    BY <1>1 DEF ChatsRight, IInv
<1> QED BY <1>2 DEF IInv, TypeOK, FileSaid, LastKept, Leave

-----------------------------------------------------------------------------
(* Requests                                                                *)

LEMMA ConfigType == TypeOK => Config \in Settings
BY DEF TypeOK, Config

\* A request decided at once is decided as promised.
LEMMA AskKeeps ==
    ASSUME IInv, NEW c \in Chat, NEW preset \in Listed \cup {NoModel},
           NEW mentions \in Texts, Ask(c, preset, mentions)
    PROVE  IInv'
<1> DEFINE candidates == Scope(lock)
           named == mentions \cap candidates
           calls == Config.auto /\ candidates # {} /\ named = {}
           model == ModelOf(preset)
           skill == IF ~Config.auto THEN Base(lock)
                    ELSE IF named # {} THEN RuleMatch(named) ELSE NoSkill
           asked == [settings |-> saved, lock |-> lock, preset |-> preset,
                     mentions |-> mentions]
           request == [state |-> IF calls THEN "routing" ELSE "sent",
                       model |-> model, skill |-> skill,
                       candidates |-> candidates, asked |-> asked]
<1>1. chat' = [chat EXCEPT ![c] = request]
    BY DEF Ask
<1>2. Config \in Settings /\ (saved # Void => Config = saved)
    BY ConfigType, SettingsAssumption DEF IInv, FileSaid, Config
<1>3. model \in Model
    BY <1>2, SettingsAssumption DEF ModelOf, Settings
<1>4. candidates \subseteq Skill /\ named \subseteq Skill
    BY DEF Scope
<1>5. named # {} => /\ RuleMatch(named) \in named
                    /\ \A r \in named : Better(RuleMatch(named), r)
    <2> HIDE DEF named
    <2> QED BY <1>4, RuleMatches
<1>6. skill \in Skill \cup {NoSkill}
    BY <1>4, <1>5 DEF Base
<1>7. asked \in Asked
    BY DEF Asked, IInv, TypeOK
<1>8. request \in Request /\ request # Idle
    <2> HIDE DEF model, skill, candidates, asked, calls
    <2> QED BY <1>3, <1>4, <1>6, <1>7 DEF Request, Idle
<1>9. ModelRight(request)
    BY <1>2, SettingsAssumption DEF ModelRight, ModelOf
<1>10. request.state = "routing" => Waits(request)
    BY <1>2 DEF Waits
<1>11. request.state = "sent" => Right(request)
    <2> SUFFICES ASSUME ~calls PROVE Right(request)
        OBVIOUS
    <2>1. saved # Void /\ ~saved.auto => skill = Base(lock)
        BY <1>2
    <2>2. skill # NoSkill => skill \in candidates
        <3>1. Base(lock) # NoSkill => Base(lock) \in candidates
            BY SettingsAssumption DEF Base, Scope
        <3> QED BY <3>1, <1>5
    <2>3. named # {} /\ saved # Void /\ saved.auto =>
             skill \in named /\ \A s \in named : Better(skill, s)
        BY <1>2, <1>5
    <2> HIDE DEF skill
    <2> QED BY <2>1, <2>2, <2>3 DEF Right
<1>12. \A d \in Chat : chat'[d] = IF d = c THEN request ELSE chat[d]
    <2> HIDE DEF request
    <2> QED BY <1>1 DEF IInv, TypeOK
<1>13. chat' \in [Chat -> Request \cup {Idle}]
    <2> HIDE DEF request
    <2> QED BY <1>1, <1>8 DEF IInv, TypeOK
<1>14. ChatsRight'
    <2> HIDE DEF request
    <2> QED BY <1>12, <1>9, <1>10, <1>11 DEF ChatsRight, IInv
<1>15. /\ last' \in [Dir -> Model \cup {NoModel}]
       /\ lastUsed' \in Model \cup {NoModel}
       /\ LastKept'
    <2>1. DirOf(file) \in Dir
        BY SettingsAssumption DEF DirOf, Settings
    <2> HIDE DEF model
    <2> QED BY <1>3, <2>1 DEF Ask, SaveLastModel, LastKept, IInv, TypeOK, DirOf, model
<1> QED BY <1>13, <1>14, <1>15 DEF Ask, IInv, TypeOK, FileSaid

\* The router's answer is one of the candidates, which no text had decided.
LEMMA RoutedKeeps ==
    ASSUME IInv, NEW c \in Chat, NEW reply \in Skill \cup {NoSkill}, Routed(c, reply)
    PROVE  IInv'
<1> DEFINE r == chat[c]
           skill == Judged(reply, r.candidates)
           sent == [r EXCEPT !.state = "sent", !.skill = skill]
<1>1. r \in Request /\ Waits(r) /\ ModelRight(r)
    BY DEF Routed, IInv, TypeOK, ChatsRight, Idle
<1>2. skill \in Skill \cup {NoSkill}
    BY DEF Judged
<1>3. chat' = [chat EXCEPT ![c] = sent]
    BY DEF Routed, IInv, TypeOK
<1>4. /\ sent \in Request /\ sent # Idle /\ sent.state = "sent"
      /\ sent.asked = r.asked /\ sent.model = r.model /\ sent.skill = skill
    <2> HIDE DEF skill, r
    <2> QED BY <1>1, <1>2 DEF Request, Idle
<1>5. ModelRight(sent)
    BY <1>1, <1>4 DEF ModelRight
<1>6. Right(sent)
    <2>1. skill # NoSkill => skill \in Scope(r.asked.lock)
        BY <1>1 DEF Waits, Judged
    <2> HIDE DEF skill, sent
    <2> QED BY <1>1, <1>4, <2>1 DEF Right, Waits
<1>7. \A d \in Chat : chat'[d] = IF d = c THEN sent ELSE chat[d]
    <2> HIDE DEF sent
    <2> QED BY <1>3 DEF IInv, TypeOK
<1>8. ChatsRight'
    <2> HIDE DEF sent
    <2> QED BY <1>7, <1>4, <1>5, <1>6 DEF ChatsRight, IInv
<1>9. chat' \in [Chat -> Request \cup {Idle}]
    <2> HIDE DEF sent
    <2> QED BY <1>3, <1>4 DEF IInv, TypeOK
<1> QED BY <1>8, <1>9 DEF Routed, IInv, TypeOK, FileSaid, LastKept

LEMMA NextOK == IInv /\ [Next]_vars => IInv'
<1> SUFFICES ASSUME IInv, [Next]_vars PROVE IInv'
    OBVIOUS
<1>1. CASE Next
    BY <1>1, SaveKeeps, SaveRawKeeps, BootKeeps, CrashKeeps, SwitchSkillKeeps,
       AskKeeps, RoutedKeeps, LeaveKeeps DEF Next
<1>2. CASE UNCHANGED vars
    BY <1>2 DEF vars, serverVars, IInv, TypeOK, FileSaid, ChatsRight, LastKept
<1> QED BY <1>1, <1>2

-----------------------------------------------------------------------------
(* The theorems                                                            *)

LEMMA Always == Spec => []IInv
BY InitOK, NextOK, PTL DEF Spec

\* Types, for every instance.
THEOREM TypeCorrect == Spec => []TypeOK
<1>1. IInv => TypeOK
    BY DEF IInv
<1> QED BY <1>1, Always, PTL

\* Every chat runs with the settings as they were saved before it.
THEOREM SavesApply == Spec => []ObeysSaved
<1>1. IInv => ObeysSaved
    BY DEF IInv, ObeysSaved, Sent, ChatsRight, ModelRight, Right, Idle
<1> QED BY <1>1, Always, PTL

\* Every chat has the skill its lock and its text call for, whatever the
\* router's model answers and however long it takes.
THEOREM RoutesRight == Spec => []RoutesAsTold
<1>1. IInv => RoutesAsTold
    <2> SUFFICES ASSUME IInv, NEW c \in Chat, chat[c].state = "sent"
                 PROVE  LET a == chat[c].asked
                            named == a.mentions \cap Scope(a.lock)
                            s == chat[c].skill
                        IN  /\ s # NoSkill => s \in Scope(a.lock)
                            /\ named # {} /\ a.settings # Void /\ a.settings.auto =>
                                  /\ s \in named
                                  /\ \A r \in named : Length[r] <= Length[s]
                                  /\ \A r \in named : r < s => Length[r] < Length[s]
        BY DEF RoutesAsTold, Sent
    <2> DEFINE a == chat[c].asked
               named == a.mentions \cap Scope(a.lock)
               s == chat[c].skill
    <2>1. Right(chat[c])
        BY DEF IInv, ChatsRight, Idle
    <2>2. named \subseteq Skill
        BY DEF Scope
    <2>3. ASSUME named # {}, a.settings # Void, a.settings.auto
          PROVE  /\ s \in named
                 /\ \A r \in named : Length[r] <= Length[s]
                 /\ \A r \in named : r < s => Length[r] < Length[s]
        <3>1. s \in named /\ \A r \in named : Better(s, r)
            BY <2>1, <2>3 DEF Right
        <3> HIDE DEF s, named
        <3>2. ASSUME NEW r \in named
              PROVE  Length[r] <= Length[s] /\ (r < s => Length[r] < Length[s])
            <4>0. r \in Skill /\ s \in Skill
                BY <3>1, <2>2
            <4>1. r \in Nat /\ s \in Nat /\ Length[r] \in Nat /\ Length[s] \in Nat
                <5> HIDE DEF a
                <5> QED BY <4>0, SkillAssumption
            <4>2. Better(s, r)
                BY <3>1
            <4> QED BY <4>1, <4>2 DEF Better
        <3> QED BY <3>1, <3>2
    <2> QED BY <2>1, <2>3 DEF Right
<1> QED BY <1>1, Always, PTL

\* The model that was used last is remembered over crashes and restarts.
THEOREM LastRemembered == Spec => []Remembered
<1>1. IInv => Remembered
    BY DEF IInv, LastKept, Remembered, Shown
<1> QED BY <1>1, Always, PTL
=============================================================================
