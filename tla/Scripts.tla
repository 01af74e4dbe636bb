------------------------------- MODULE Scripts -------------------------------
(***************************************************************************)
(* A custom tool: its versions in tool_defs, and the one file under        *)
(* .tools/ that every call of it writes before the interpreter is started. *)
(* Calls of several agents run side by side, and while they do the tool    *)
(* may be improved or rolled back.                                         *)
(***************************************************************************)
EXTENDS Naturals, Sequences, FiniteSets, SequencesExt

CONSTANTS
    Callers,       \* tasks that may call the tool
    MaxVersions, MaxSaves   \* bounds: rows at a time, scripts ever saved

ScriptsAssumption == {MaxVersions, MaxSaves} \subseteq Nat \ {0}

VARIABLES
    script,    \* the versions of the tool, each the number of its save
    saves,     \* scripts saved so far
    file,      \* the save in .tools/<name>, 0 while there is none
    run        \* what each caller is in the middle of
scriptVars == <<script, saves, file, run>>

Idle == [pc |-> "idle", read |-> 0, due |-> 0, overlap |-> FALSE, ran |-> 0]

Init ==
    /\ script = <<>> /\ saves = 0 /\ file = 0
    /\ run = [c \in Callers |-> Idle]

-----------------------------------------------------------------------------
(* create_tool, and its rollback.                                          *)
CreateTool ==
    /\ saves < MaxSaves /\ Len(script) < MaxVersions
    /\ saves' = saves + 1
    /\ script' = Append(script, saves + 1)
    /\ UNCHANGED <<file, run>>

RollbackTool ==
    /\ script' = IF Len(script) > 1 THEN Front(script) ELSE script
    /\ UNCHANGED <<saves, file, run>>

Running == {c \in Callers : run[c].pc \in {"read", "written"}}

(* custom::run takes the newest script from the registry; due is that one, *)
(* overlap that another call was under way at some point of this one.      *)
ReadScript(c) ==
    /\ run[c].pc = "idle" /\ script # <<>>
    /\ run' = [d \in Callers |->
                 IF d = c THEN [pc |-> "read", read |-> Last(script), due |-> Last(script),
                                overlap |-> Running # {}, ran |-> 0]
                 ELSE [run[d] EXCEPT !.overlap = @ \/ d \in Running]]
    /\ UNCHANGED <<script, saves, file>>

\* Fault: a file that is there is not written again.
WriteOnce(c) ==
    /\ run[c].pc = "read"
    /\ file' = IF file = 0 THEN run[c].read ELSE file
    /\ run' = [run EXCEPT ![c].pc = "written"]
    /\ UNCHANGED <<script, saves>>

(* run_inner puts it in the one file of that name ...                      *)
WriteScript(c) ==
    /\ run[c].pc = "read"
    /\ file' = run[c].read
    /\ run' = [run EXCEPT ![c].pc = "written"]
    /\ UNCHANGED <<script, saves>>

(* ... and the interpreter reads the file when it starts.                  *)
RunScript(c) ==
    /\ run[c].pc = "written"
    /\ run' = [run EXCEPT ![c] = [@ EXCEPT !.pc = "ran", !.ran = file]]
    /\ UNCHANGED <<script, saves, file>>

Return(c) ==
    /\ run[c].pc = "ran"
    /\ run' = [run EXCEPT ![c] = Idle]
    /\ UNCHANGED <<script, saves, file>>

(* A restart ends the calls; the file outlives it.                         *)
Restart ==
    /\ run' = [c \in Callers |-> Idle]
    /\ UNCHANGED <<script, saves, file>>

Next ==
    \/ CreateTool \/ RollbackTool \/ Restart
    \/ \E c \in Callers : ReadScript(c) \/ WriteScript(c) \/ RunScript(c) \/ Return(c)

Spec == Init /\ [][Next]_scriptVars

-----------------------------------------------------------------------------
TypeOK ==
    /\ script \in Seq(1 .. saves) /\ saves \in 0 .. MaxSaves /\ file \in 0 .. saves
    /\ \A c \in Callers :
          /\ run[c].pc \in {"idle", "read", "written", "ran"}
          /\ {run[c].read, run[c].due, run[c].ran} \subseteq 0 .. saves

(* A call runs the script that was newest when it began, or one that was   *)
(* not only because another call of the tool wrote the file meanwhile      *)
(* (get_tool, then fs::write, then the shell: three steps, one file).      *)
StaleOnlyByOverlap ==
    \A c \in Callers : run[c].pc = "ran" /\ run[c].ran # run[c].due => run[c].overlap
=============================================================================
