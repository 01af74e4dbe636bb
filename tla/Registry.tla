------------------------------ MODULE Registry ------------------------------
(***************************************************************************)
(* What the company writes for itself, kept in versions: prompts and       *)
(* skills.  (Custom tools are kept alike; see Scripts.)  A version is a    *)
(* row; versions are numbered from one without gaps, since only the newest *)
(* is ever taken back, so the versions of a name are a sequence.           *)
(***************************************************************************)
EXTENDS Naturals, Sequences, FiniteSets, SequencesExt

CONSTANTS
    Agents,        \* employees; each runs on the prompt agent:<name>
    Pointer,       \* a text that is no prompt: too short, or a bare URL
    Prompts,       \* texts that are
    Seeds,         \* texts of the file a skill is shipped in
    Essays,        \* texts the company writes itself
    MaxVersions    \* bound: rows per name

RegistryAssumption ==
    /\ Pointer \notin Prompts
    /\ Seeds \cap Essays = {} /\ Seeds # {} /\ Prompts # {}
    /\ MaxVersions \in Nat \ {0}

Nothing == "nothing"
Base    == "base"       \* employee_base, manager_base
Names   == Agents \cup {Base}

VARIABLES
    prompts,   \* the versions of each prompt
    skill,     \* the versions of one skill: its text, and whether the
               \* reason of the row starts with "seeded"
    shipped,   \* the text of its seed file in this build
    own        \* history: the company's own text that has to be live,
               \* Nothing if it has none
registryVars == <<prompts, skill, shipped, own>>

(* The newest version that is a prompt.                                    *)
get_prompt(n) ==
    LET usable == {i \in DOMAIN prompts[n] : prompts[n][i] # Pointer}
    IN IF usable = {} THEN Nothing ELSE prompts[n][Max(usable)]

(* seed_prompt, on a name that has no row.                                 *)
SeedPrompt(n, text) == IF prompts[n] = <<>> THEN <<text>> ELSE prompts[n]

\* Fault: the last row goes as well.
RolledBackAll(rows) == IF rows = <<>> THEN rows ELSE Front(rows)

(* rollback_prompt, rollback_skill: the newest row goes, unless it is the  *)
(* only one.                                                               *)
RolledBack(rows) == IF Len(rows) > 1 THEN Front(rows) ELSE rows

(* The database of an older build: it let the CEO save a pointer as the    *)
(* newest version of any prompt, one that was not seeded yet included.     *)
Init ==
    /\ \E p \in Prompts :
          /\ prompts \in [Names -> {<<>>, <<Pointer>>, <<p>>, <<p, Pointer>>}]
          /\ prompts[Base] \in {<<p>>, <<p, Pointer>>}
    /\ \E s \in Seeds : shipped = s /\ skill = <<[text |-> s, seeded |-> TRUE]>>
    /\ own = Nothing

SkillKept == UNCHANGED <<skill, shipped, own>>

-----------------------------------------------------------------------------
(* hire: a name without a usable prompt is seeded with the base it has.    *)
HirePrompt(a) ==
    /\ get_prompt(a) = Nothing
    /\ prompts' = [prompts EXCEPT ![a] = SeedPrompt(a, get_prompt(Base))]
    /\ SkillKept

UpdatePrompt(n, text) ==
    /\ text # Pointer /\ Len(prompts[n]) < MaxVersions
    /\ prompts' = [prompts EXCEPT ![n] = Append(@, text)]
    /\ SkillKept

RollbackPrompt(n) ==
    /\ prompts' = [prompts EXCEPT ![n] = RolledBack(@)]
    /\ SkillKept

(* The prompt a run of an employee gets: its own, or the base of its kind. *)
Resolved(n) == IF get_prompt(n) # Nothing THEN get_prompt(n) ELSE get_prompt(Base)

-----------------------------------------------------------------------------
(* create_skill.  The reason is the author's to choose: one that starts    *)
(* like the seeder's gives the text up to the next change of the file.     *)
CreateSkill(text, asSeed) ==
    /\ Len(skill) < MaxVersions
    /\ skill' = Append(skill, [text |-> text, seeded |-> asSeed])
    /\ own' = IF asSeed THEN Nothing ELSE text
    /\ UNCHANGED <<prompts, shipped>>

(* What is live is the company's own again if the row under it is.         *)
RollbackSkill ==
    /\ skill' = RolledBack(skill)
    /\ own' = IF skill' = <<>> \/ Last(skill').seeded THEN Nothing ELSE Last(skill').text
    /\ UNCHANGED <<prompts, shipped>>

RetireSkill ==
    /\ skill' = <<>> /\ own' = Nothing
    /\ UNCHANGED <<prompts, shipped>>

\* Fault: a changed file ships over whatever is live.
ShipsOver == skill = <<>> \/ Last(skill).text # shipped'

(* skills::seed leaves a text alone that the company wrote, and one that   *)
(* is the file's already.                                                  *)
Ships == skill = <<>> \/ (Last(skill).seeded /\ Last(skill).text # shipped')

(* A start of the process, on this build or on one with a new file.        *)
Boot(text) ==
    /\ Len(skill) < MaxVersions
    /\ shipped' = text
    /\ skill' = IF Ships THEN Append(skill, [text |-> text, seeded |-> TRUE]) ELSE skill
    /\ prompts' = [prompts EXCEPT ![Base] = SeedPrompt(Base, CHOOSE p \in Prompts : TRUE)]
    /\ UNCHANGED own

Next ==
    \/ \E a \in Agents : HirePrompt(a)
    \/ \E n \in Names :
          RollbackPrompt(n) \/ \E t \in Prompts \cup {Pointer} : UpdatePrompt(n, t)
    \/ RollbackSkill \/ RetireSkill \/ \E t \in Essays, b \in BOOLEAN : CreateSkill(t, b)
    \/ \E t \in Seeds : Boot(t)

Spec == Init /\ [][Next]_registryVars

-----------------------------------------------------------------------------
TypeOK ==
    /\ prompts \in [Names -> Seq(Prompts \cup {Pointer})]
    /\ skill \in Seq([text: Seeds \cup Essays, seeded: BOOLEAN])
    /\ shipped \in Seeds /\ own \in Essays \cup {Nothing}

(* Nobody works without a prompt: through updates, rollbacks, hires and    *)
(* the pointers an older build let in, every run gets the text of a        *)
(* prompt, its own or its base's (get_prompt, rollback_prompt, hire).      *)
PromptStands == \A n \in Names : Resolved(n) \in Prompts

(* Every later build ships its files, and none of them ever replaces what  *)
(* the company wrote and has not taken back itself (skills::seed).         *)
OwnSkillStands == own # Nothing => skill # <<>> /\ Last(skill).text = own
=============================================================================
