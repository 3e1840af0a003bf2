------------------------------ MODULE EnvFile ------------------------------
(***************************************************************************)
(* The .env file of a project under the commands of bonklm that rewrite    *)
(* it: connector add and the wizard, which merge entries into it, and      *)
(* connector remove, which writes what is left of it                       *)
(* (packages/core/src/cli/config/env.ts and commands/).  Each reads the    *)
(* whole file with dotenv, writes a file of its own, every value as it was *)
(* read, and renames it over the old one; nothing keeps two commands       *)
(* apart.                                                                  *)
(***************************************************************************)
EXTENDS Naturals, FiniteSets

CONSTANTS
  Commands,     \* commands, each run once
  EnvKeys,      \* the variables of the connectors, one of each
  Others,       \* variables of no connector
  FirstFiles    \* what the file may hold at first

VARIABLES
  file,         \* the variables of the file, each as it is written there
  moved,        \* history: what others changed since a command read the file
  command,      \* the commands
  temp,         \* the commands whose temporary directory exists
  audited       \* the audit log: the commands it says have succeeded

envVars == <<file, moved, command, temp, audited>>

Variables == EnvKeys \cup Others

(* How a variable stands in the file: not at all, plainly, in the quotes    *)
(* that its spaces, quotes or # require, without them, cut to what dotenv   *)
(* reads of that, or with a name or a newline that cannot be written.       *)
Standings == {"none", "plain", "quoted", "bare", "cut", "odd"}

(* What dotenv reads, and how the value is written after that.              *)
Parsed(text) ==
  CASE text = "quoted" -> "marked" [] text = "bare" -> "cut" [] OTHER -> text
Formatted(value) == IF value = "marked" THEN "bare" ELSE value
Values == {"none", "plain", "marked", "cut", "odd"}

NoVariable == [k \in Variables |-> "none"]
NotRun == [kind |-> "none", keys |-> {}, value |-> "none", state |-> "idle", write |-> NoVariable]

ASSUME EnvAssumption == FirstFiles \subseteq [Variables -> Standings]

EnvInit ==
  /\ file \in FirstFiles /\ moved = [c \in Commands |-> {}] /\ temp = {} /\ audited = {}
  /\ command = [c \in Commands |-> NotRun]

In(c, state) == command[c].state = state

Becomes(c, state) == command' = [command EXCEPT ![c].state = state]

(* What is in the file, read.                                               *)
AsRead == [k \in Variables |-> Parsed(file[k])]

(* The command has read the file and goes on to what it will write.         *)
ReadsInto(c, state, write) ==
  /\ command' = [command EXCEPT ![c].state = state, ![c].write = write]
  /\ moved' = [moved EXCEPT ![c] = {}]
-----------------------------------------------------------------------------
(* connector add and the wizard collect the variables of one connector or   *)
(* of several from prompts and the environment.                             *)
CollectsCredentials(c, keys, value, kind) ==
  /\ In(c, "idle")
  /\ kind = "add" => Cardinality(keys) = 1
  /\ command' = [command EXCEPT ![c] =
       [kind |-> kind, keys |-> keys, value |-> value, state |-> "testing", write |-> NoVariable]]
  /\ UNCHANGED <<file, moved, temp, audited>>

(* A connector that fails its test is not added, unless by --force; the     *)
(* wizard only reports it.                                                  *)
TestsConnectors(c) ==
  /\ In(c, "testing")
  /\ Becomes(c, "merging") \/ (command[c].kind = "add" /\ Becomes(c, "failed"))
  /\ UNCHANGED <<file, moved, temp, audited>>

(* The entries, over what is there.                                         *)
Entered(c, there) ==
  [k \in Variables |-> IF k \in command[c].keys THEN command[c].value ELSE there[k]]

(* Mutant: the entries replace the file.                                    *)
MergesNothing(c) ==
  /\ In(c, "merging")
  /\ ReadsInto(c, "formatting", Entered(c, NoVariable))
  /\ UNCHANGED <<file, temp, audited>>

(* EnvManager.write with merge: reads what is there and puts the entries    *)
(* over it.  A file that cannot be read is an error.                        *)
MergesEntries(c) ==
  /\ In(c, "merging")
  /\ \/ ReadsInto(c, "formatting", Entered(c, AsRead))
     \/ Becomes(c, "failed") /\ UNCHANGED moved
  /\ UNCHANGED <<file, temp, audited>>

(* connector remove reads the file, or cannot, and ends there when it holds *)
(* nothing of the connector.                                                *)
StartsRemoval(c, key) ==
  /\ In(c, "idle")
  /\ \E state \in {"failed", IF file[key] # "none" THEN "confirming" ELSE "done"} :
       command' = [command EXCEPT ![c] =
         [kind |-> "remove", keys |-> {key}, value |-> "none", state |-> state,
          write |-> [AsRead EXCEPT ![key] = "none"]]]
  /\ moved' = [moved EXCEPT ![c] = {}]
  /\ UNCHANGED <<file, temp, audited>>

(* The user confirms it, or not, as long as that takes.                     *)
ConfirmsRemoval(c) ==
  /\ In(c, "confirming")
  /\ Becomes(c, "formatting") \/ Becomes(c, "failed")
  /\ UNCHANGED <<file, moved, temp, audited>>

(* formatEntries throws on a value it cannot write; nothing is touched.     *)
FormatsEntries(c) ==
  /\ In(c, "formatting")
  /\ Becomes(c, IF \E k \in Variables : command[c].write[k] = "odd" THEN "failed" ELSE "writing")
  /\ UNCHANGED <<file, moved, temp, audited>>

(* writeAtomic: a directory of its own, which the finally block removes     *)
(* when it and the file lie on different file systems or writing fails.     *)
WritesTemporary(c) ==
  /\ In(c, "writing")
  /\ \/ Becomes(c, "renaming") /\ temp' = temp \cup {c}
     \/ Becomes(c, "failed") /\ UNCHANGED temp
  /\ UNCHANGED <<file, moved, audited>>

(* Each value stands in the new file as it is: KEY=value, without quotes.   *)
RenamesOver(c) ==
  /\ In(c, "renaming")
  /\ file' = [k \in Variables |-> Formatted(command[c].write[k])]
  /\ moved' = [d \in Commands |-> moved[d] \cup {k \in Variables : file'[k] # file[k]}]
  /\ Becomes(c, "cleaning")
  /\ UNCHANGED <<temp, audited>>

(* The permissions are verified after the rename, and the directory is      *)
(* removed whether that throws or not; a failure to remove it is a warning. *)
CleansUp(c) ==
  /\ In(c, "cleaning")
  /\ Becomes(c, "auditing") \/ Becomes(c, "failed")
  /\ temp' = temp \ {c} \/ UNCHANGED temp
  /\ UNCHANGED <<file, moved, audited>>

(* The log entry; where it cannot be written, add and the wizard fail and   *)
(* remove does not.                                                         *)
AuditsCommand(c) ==
  /\ In(c, "auditing")
  /\ \/ Becomes(c, "done") /\ audited' = audited \cup {c}
     \/ /\ Becomes(c, IF command[c].kind = "remove" THEN "done" ELSE "failed")
        /\ UNCHANGED audited
  /\ UNCHANGED <<file, moved, temp>>

(* The process is stopped where it waits: nothing more comes of it.         *)
StopsCommand(c) ==
  /\ ~In(c, "idle") /\ ~In(c, "done") /\ ~In(c, "failed") /\ Becomes(c, "failed")
  /\ UNCHANGED <<file, moved, temp, audited>>

EnvNext ==
  \E c \in Commands :
    \/ \E keys \in (SUBSET EnvKeys) \ {{}}, value \in {"plain", "marked"}, kind \in {"add", "wizard"} :
         CollectsCredentials(c, keys, value, kind)
    \/ \E key \in EnvKeys : StartsRemoval(c, key)
    \/ TestsConnectors(c) \/ MergesEntries(c) \/ ConfirmsRemoval(c) \/ FormatsEntries(c)
    \/ WritesTemporary(c) \/ RenamesOver(c) \/ CleansUp(c) \/ AuditsCommand(c)
    \/ StopsCommand(c)

EnvSpec == EnvInit /\ [][EnvNext]_envVars
-----------------------------------------------------------------------------
(* What a command leaves in the file is its own entries, or their absence,  *)
(* and of every other variable what was there when it came, written as      *)
(* dotenv reads it; what it undoes is what other commands changed after it  *)
(* read, and nothing else.                                                  *)
ChangesItsOwnOnly ==
  [][\A c \in Commands : RenamesOver(c) =>
       /\ \A k \in Variables \ (command[c].keys \cup moved[c]) :
            file'[k] = Formatted(Parsed(file[k]))
       /\ \A k \in command[c].keys : file'[k] = Formatted(command[c].value)]_envVars

(* What the comment of EnvManager.write promises and the code does not      *)
(* keep: an entry is merged with the values that are there, which stay what *)
(* they are.  A value in quotes comes back without them and is read as its  *)
(* beginning, and a command undoes what others wrote after it had read.     *)
OthersKeepTheirValues ==
  [][\A c \in Commands : RenamesOver(c) =>
       \A k \in Variables \ command[c].keys : Parsed(file'[k]) = Parsed(file[k])]_envVars
=============================================================================
