------------------------------ MODULE Modalias -----------------------------
(***************************************************************************)
(* modalias_list() of src/src/modules/mod.rs (--modalias): the names of    *)
(* the kernel modules that are loaded, and of those that the modalias      *)
(* files below /sys/devices ask for.                                       *)
(*                                                                         *)
(* /sys/devices changes while it is walked.  A device can be unplugged     *)
(* between the step of the walk that finds its modalias file and the open, *)
(* and a device that is plugged in after the walk began is found or not.   *)
(* An entry that the walk cannot read is left out without an error.        *)
(***************************************************************************)
EXTENDS Naturals, Sequences

CONSTANTS
  Modules,   \* kernel modules
  Aliases,   \* names of modules and contents of modalias files
  Empty,     \* the content of an empty modalias file
  Devices,   \* devices with a modalias file
  Systems    \* the systems to consider

System(s) ==
  /\ s.kmod \in BOOLEAN                     \* Context::new() and modules_loaded() succeed
  /\ s.loaded \in Seq(Modules)
  /\ s.nameless \subseteq Modules           \* name() is None
  /\ s.name \in [Modules -> Aliases]
  /\ s.lookup \in [Aliases -> Seq(Modules)]
  /\ s.lookupErr \subseteq Aliases          \* module_new_from_lookup fails
  /\ s.modalias \in [Devices -> Aliases \cup {Empty}]
  /\ s.present \subseteq Devices            \* plugged in at the start
  /\ s.unreadable \subseteq Devices         \* open() or read() fails
  /\ s.hidden \subseteq Devices             \* the walk fails on the way to the file

ModaliasAssumption ==
  /\ Empty \notin Aliases
  /\ \A s \in Systems : System(s)

VARIABLES
  sys,       \* the system (constant)
  pc,        \* "start", "loaded", "walk", "file", "ok" or "err"
  next,      \* the loop over the loaded modules
  plugged,   \* devices that are there
  steady,    \* devices that are there ever since the walk began
  walked,    \* devices the walk has come to
  dev,       \* the device whose file is read
  modules    \* the HashSet

devices == <<plugged, steady>>
vars == <<sys, pc, next, devices, walked, dev, modules>>

\* Nothing is looked up yet; `dev` and `steady` are not used before the walk.
Start ==
  /\ pc = "start" /\ next = 1 /\ modules = {}
  /\ plugged = sys.present /\ steady = {}
  /\ walked = {} /\ dev = CHOOSE d \in Devices : TRUE

Init == sys \in Systems /\ Start

Running == pc \notin {"ok", "err"}

Plug(d) ==
  /\ Running /\ d \notin plugged
  /\ plugged' = plugged \cup {d}
  /\ UNCHANGED <<sys, pc, next, steady, walked, dev, modules>>

Unplug(d) ==
  /\ Running /\ d \in plugged
  /\ plugged' = plugged \ {d}
  /\ steady' = steady \ {d}
  /\ UNCHANGED <<sys, pc, next, walked, dev, modules>>

----------------------------------------------------------------------------
CreateContext ==
  /\ pc = "start"
  /\ pc' = IF sys.kmod THEN "loaded" ELSE "err"
  /\ UNCHANGED <<sys, next, devices, walked, dev, modules>>

\* The modules that module_new_from_lookup() finds; it may fail.
Found(a) == {sys.lookup[a][k] : k \in DOMAIN sys.lookup[a]}

\* `?` for the lookup and for a module without a name.
LookupFails(a) == a \in sys.lookupErr \/ Found(a) \cap sys.nameless # {}

NamesFound(a) == {sys.name[m] : m \in Found(a)}

\* What a device asks for.
AskedFor(d) == IF sys.modalias[d] = Empty THEN {} ELSE NamesFound(sys.modalias[d])

AddLoaded ==
  /\ pc = "loaded" /\ next <= Len(sys.loaded)
  /\ LET m == sys.loaded[next]
     IN  IF m \in sys.nameless \/ LookupFails(sys.name[m])
         THEN pc' = "err" /\ UNCHANGED <<modules, next>>
         ELSE /\ modules' = modules \cup {sys.name[m]} \cup NamesFound(sys.name[m])
              /\ next' = next + 1
              /\ UNCHANGED pc
  /\ UNCHANGED <<sys, devices, walked, dev>>

AllLoaded ==
  /\ pc = "loaded" /\ next > Len(sys.loaded)
  /\ pc' = "walk"
  /\ steady' = plugged
  /\ UNCHANGED <<sys, next, plugged, walked, dev, modules>>

\* WalkDir comes to the file of a device that is there.  An error on the way
\* to it is dropped by filter_map(Result::ok).
Walk(d) ==
  /\ pc = "walk" /\ d \in plugged \ (walked \cup sys.hidden)
  /\ dev' = d
  /\ walked' = walked \cup {d}
  /\ pc' = "file"
  /\ UNCHANGED <<sys, next, devices, modules>>

\* The file of the device, once it is gone, cannot be opened or read.
ReadFails == dev \notin plugged \/ dev \in sys.unreadable

\* Mutant of BadAlias: an empty file is looked up.
BadAlias_Empty == sys.modalias[dev] = Empty \/ LookupFails(sys.modalias[dev])

BadAlias == sys.modalias[dev] # Empty /\ LookupFails(sys.modalias[dev])

\* Mutant of OnError: the walk ends at a file that cannot be read.
OnError_Ends == "ok"

OnError == "err"

FileFails ==
  /\ pc = "file" /\ (ReadFails \/ BadAlias)
  /\ pc' = OnError
  /\ UNCHANGED <<sys, next, devices, walked, dev, modules>>

\* An empty file asks for nothing.
AddDevice ==
  /\ pc = "file" /\ ~ReadFails /\ ~BadAlias
  /\ modules' = modules \cup AskedFor(dev)
  /\ pc' = "walk"
  /\ UNCHANGED <<sys, next, devices, walked, dev>>

\* What the walk cannot miss; it may end before it comes to a newer device.
InSight == steady \ sys.hidden

AllWalked ==
  /\ pc = "walk" /\ InSight \subseteq walked
  /\ pc' = "ok"
  /\ UNCHANGED <<sys, next, devices, walked, dev, modules>>

List ==
  \/ CreateContext \/ AddLoaded \/ AllLoaded
  \/ (\E d \in Devices : Walk(d)) \/ FileFails \/ AddDevice \/ AllWalked

Next == List \/ \E d \in Devices : Plug(d) \/ Unplug(d)

Spec == Init /\ [][Next]_vars

----------------------------------------------------------------------------
NamesLoaded ==
  UNION {{sys.name[sys.loaded[k]]} \cup NamesFound(sys.name[sys.loaded[k]]) : k \in DOMAIN sys.loaded}

(***************************************************************************)
(* The list is complete although devices come and go: with Ok it holds the *)
(* modules of every loaded module's name and of every device that was      *)
(* there throughout the walk, unless the walk failed on the way to its     *)
(* file, which modalias_list() passes over (modules/mod.rs:33).  At no     *)
(* time does it hold a module nobody asked for.                            *)
(***************************************************************************)
ListIsComplete ==
  /\ pc = "ok" =>
       NamesLoaded \cup UNION {AskedFor(d) : d \in steady \ sys.hidden} \subseteq modules
  /\ modules \subseteq NamesLoaded \cup UNION {AskedFor(d) : d \in Devices}

(***************************************************************************)
(* There is no list at all if libkmod fails or one modalias file cannot be *)
(* read, which is the case too for a device that is unplugged between the  *)
(* walk and the open; for other reasons modalias_list() does not fail.     *)
(***************************************************************************)
ErrorsAreExplained ==
  pc = "err" =>
    \/ ~sys.kmod \/ sys.lookupErr # {} \/ sys.nameless # {}
    \/ sys.unreadable # {}
    \/ dev \in walked \ plugged
=============================================================================
