-------------------------------- MODULE Main -------------------------------
(***************************************************************************)
(* main() and do_main() of src/src/main.rs: options, logging, the version  *)
(* of the kernel and the choice between the three things the program does. *)
(*   --modalias   modalias_list() of Modalias, whose list is printed;      *)
(*   --module     install_modules() of InstallModules;                     *)
(*   otherwise    install_files_ldd(), of which only the outcome is here:  *)
(*                Ldd, ClonePath and CopyFile are its parts.               *)
(* An error of any of them becomes exit(1).                                *)
(***************************************************************************)
EXTENDS InstallModules

CONSTANTS
  Empty,     \* see Modalias
  Devices,
  Systems,
  Inputs     \* the triples [cmd, tree, sys] to consider

Command ==
  [ destrootdir : BOOLEAN,   \* --destrootdir or the environment variable is set
    regexps     : BOOLEAN,   \* the --mod-filter-* options are regular expressions
    logs        : BOOLEAN,   \* no --logdir, or the log file can be opened
    kernel      : BOOLEAN,   \* --kerneldir is given, or uname() works
    modalias    : BOOLEAN,
    module      : BOOLEAN,
    files       : {"exit0", "exit1", "panic"} ]  \* how install_files_ldd() ends

VARIABLES
  cmd,    \* the command line and the environment (constant)
  main,   \* "options", "setup", "modalias", "module", "files", "exit0", "exit1" or "panic"
  sys, mpc, mnext, plugged, steady, walked, dev, modules   \* see Modalias

ML == INSTANCE Modalias WITH pc <- mpc, next <- mnext

ASSUME MainAssumption ==
  /\ ML!ModaliasAssumption
  /\ \A in \in Inputs : in.cmd \in Command /\ Tree(in.tree) /\ ML!System(in.sys)

listVars == <<sys, mpc, mnext, plugged, steady, walked, dev, modules>>
mainVars == <<cmd, main, vars, listVars>>

MainInit ==
  /\ \E in \in Inputs : cmd = in.cmd /\ tree = in.tree /\ sys = in.sys
  /\ main = "options"
  /\ Start
  /\ ML!Start

Goto(m) == main' = m /\ UNCHANGED <<cmd, vars, listVars>>

----------------------------------------------------------------------------
\* --modalias needs no DESTROOTDIR.
ReadOptions ==
  /\ main = "options"
  /\ Goto(IF cmd.regexps /\ (cmd.destrootdir \/ cmd.modalias) THEN "setup" ELSE "exit1")

\* The log file and uname(), and the choice.
SetUp ==
  /\ main = "setup"
  /\ Goto(IF ~cmd.logs \/ ~cmd.kernel THEN "exit1"
          ELSE IF cmd.modalias THEN "modalias"
          ELSE IF cmd.module THEN "module" ELSE "files")

ListModules ==
  /\ main = "modalias"
  /\ ML!List
  /\ UNCHANGED <<cmd, main, vars>>

ListReturns ==
  /\ main = "modalias"
  /\ mpc \in {"ok", "err"}
  /\ Goto(IF mpc = "ok" THEN "exit0" ELSE "exit1")

Install ==
  /\ main = "module"
  /\ Next
  /\ UNCHANGED <<cmd, main, listVars>>

InstallReturns ==
  /\ main = "module"
  /\ phase \in {"ok", "error", "panic"}
  /\ Goto(CASE phase = "ok" -> "exit0" [] phase = "error" -> "exit1" [] phase = "panic" -> "panic")

FilesReturn ==
  /\ main = "files"
  /\ Goto(cmd.files)

\* A device is plugged in or unplugged while the list is made.
PlugOrUnplug(d) ==
  /\ main = "modalias"
  /\ ML!Plug(d) \/ ML!Unplug(d)
  /\ UNCHANGED <<cmd, main, vars>>

Program ==
  \/ ReadOptions \/ SetUp \/ ListModules \/ ListReturns
  \/ Install \/ InstallReturns \/ FilesReturn

MainNext == Program \/ \E d \in Devices : PlugOrUnplug(d)

\* One thread runs the program; nothing is assumed of the devices.
MainSpec == MainInit /\ [][MainNext]_mainVars /\ WF_mainVars(Program)

----------------------------------------------------------------------------
(***************************************************************************)
(* With the exit status 0 of --module every argument, and every file the   *)
(* walk below an argument =dir came to, was resolved, and below DESTROOTDIR*)
(* are all modules it stands for and the filters accept, with everything   *)
(* they need: no failed lookup of one request, no error in the middle of   *)
(* the search and no failed copy is forgotten on the way to 0.             *)
(* What install_modules() passes over without an error is not promised:    *)
(* files below =dir that the walk does not come to (Lost, lib.rs:209), the *)
(* soft dependencies of a module for which soft_dependencies() fails       *)
(* (PreFound, lib.rs:367) and modules without a path.                      *)
(***************************************************************************)
ExitZeroMeansInstalled ==
  main = "exit0" /\ cmd.module /\ ~cmd.modalias =>
    /\ \A r \in Seq2Set(tree.requests) :
         \/ Lost(r)
         \/ /\ ~NoLookup(r) /\ LookedUp(r) \notin tree.lookupErr
            /\ \A m \in Seq2Set(tree.lookup[LookedUp(r)]) :
                 m \in tree.pathless \/ ~Accepted(m) \/ m \in installed
    /\ Closed(installed)

(***************************************************************************)
(* The list of --modalias is complete although devices come and go: it     *)
(* lacks nothing of a device that was there throughout the walk and that   *)
(* the walk could reach.                                                   *)
(***************************************************************************)
ListIsComplete == ML!ListIsComplete

(***************************************************************************)
(* modalias_list() fails for libkmod, for a modalias file that cannot be   *)
(* read and for a device that is unplugged between the walk and the open,  *)
(* and for nothing else.                                                   *)
(***************************************************************************)
ListErrorsAreExplained == ML!ErrorsAreExplained

(***************************************************************************)
(* The program ends: the search for modules for cyclic soft dependencies   *)
(* too, and the walk over /sys/devices however devices come and go.        *)
(***************************************************************************)
Termination == <>(main \in {"exit0", "exit1", "panic"})
=============================================================================
