----------------------------- MODULE MainProofs -----------------------------
(***************************************************************************)
(* Proofs about Main and Modalias: what the exit status 0 of --module      *)
(* means, and the list of --modalias, while devices come and go.           *)
(***************************************************************************)
EXTENDS Main, ModuleProofs

----------------------------------------------------------------------------
(***************************************************************************)
(* --module.  The status 0 is one of install_modules() only if main() went *)
(* that way.                                                               *)
(***************************************************************************)
ExitStatus ==
  /\ cmd \in Command
  /\ main = "modalias" => cmd.modalias
  /\ main = "files" => ~cmd.module
  /\ main = "exit0" => cmd.modalias \/ ~cmd.module \/ phase = "ok"

\* install_modules() takes a step or none.
LEMMA MainSteps == [MainNext]_mainVars => [Next]_vars
BY DEF MainNext, Program, ReadOptions, SetUp, ListModules, ListReturns, Install, InstallReturns,
       FilesReturn, PlugOrUnplug, Goto, mainVars

\* The invariant of the module installer holds in every state of main().
LEMMA MainModuleInv == MainSpec => []ModuleInv
<1>1. MainInit => ModuleInv
  <2> SUFFICES ASSUME MainInit PROVE ModuleInv
    OBVIOUS
  <2>1. Tree(tree) /\ Start
    BY MainAssumption DEF MainInit
  <2> QED
    BY <2>1, StartModuleInv
<1> QED
  BY <1>1, MainSteps, StepModuleInv, PTL DEF MainSpec

\* Every reachable state satisfies ExitStatus.
LEMMA MainExitStatus == MainSpec => []ExitStatus
<1>1. MainInit => ExitStatus
  BY MainAssumption DEF MainInit, ExitStatus
<1>2. ExitStatus /\ [MainNext]_mainVars => ExitStatus'
  <2> SUFFICES ASSUME ExitStatus, [MainNext]_mainVars PROVE ExitStatus'
    OBVIOUS
  <2> USE DEF ExitStatus, Goto
  <2>1. CASE ReadOptions \/ SetUp
    BY <2>1 DEF ReadOptions, SetUp
  <2>2. CASE ListModules
    BY <2>2 DEF ListModules, vars
  <2>3. CASE ListReturns \/ InstallReturns \/ FilesReturn
    <3>1. cmd.files \in {"exit0", "exit1", "panic"}
      BY DEF Command
    <3> QED
      BY <2>3, <3>1 DEF ListReturns, InstallReturns, FilesReturn, vars
  <2>4. CASE Install
    BY <2>4 DEF Install
  <2>5. ASSUME NEW d \in Devices, PlugOrUnplug(d) PROVE ExitStatus'
    BY <2>5 DEF PlugOrUnplug, vars
  <2>6. CASE UNCHANGED mainVars
    BY <2>6 DEF mainVars, vars
  <2> QED
    BY <2>1, <2>2, <2>3, <2>4, <2>5, <2>6 DEF MainNext, Program
<1> QED
  BY <1>1, <1>2, PTL DEF MainSpec

\* MainSpec => []ExitZeroMeansInstalled: the exit status 0 of --module means
\* that every request was resolved whose file the walk below =dir came to, and
\* that all it stands for is installed with everything it needs.
THEOREM ExitZeroIsMeant == MainSpec => []ExitZeroMeansInstalled
<1>1. ModuleInv /\ ExitStatus => ExitZeroMeansInstalled
  <2> SUFFICES ASSUME ModuleInv, phase = "ok"
               PROVE  ExitZeroMeansInstalled
    BY DEF ExitStatus, ExitZeroMeansInstalled
  <2>1. installed = visited /\ ~failed /\ Closed(visited) /\ Roots \subseteq visited
    BY DEF ModuleInv, SearchInv, PhasesInOrder, OnlyCompleteSetsAreCopied, RequestsResolved
  <2>2. ASSUME NEW r \in Seq2Set(tree.requests), ~Lost(r)
        PROVE  /\ ~NoLookup(r) /\ LookedUp(r) \notin tree.lookupErr
               /\ \A m \in Seq2Set(tree.lookup[LookedUp(r)]) :
                    m \in tree.pathless \/ ~Accepted(m) \/ m \in installed
    <3>1. PICK k \in DOMAIN tree.requests : r = tree.requests[k]
      BY DEF Seq2Set
    <3>2. /\ ~NoLookup(r) /\ LookedUp(r) \notin tree.lookupErr
          /\ Seq2Set(tree.lookup[LookedUp(r)]) \subseteq Seq2Set(top)
      BY <2>1, <2>2, <3>1 DEF ModuleInv, RequestsResolved
    <3> QED
      BY <2>1, <3>2 DEF Roots
  <2> QED
    BY <2>1, <2>2 DEF ExitZeroMeansInstalled
<1> QED
  BY <1>1, MainModuleInv, MainExitStatus, PTL

\* The invariants of install_modules() hold in the program.
THEOREM MainModuleInvariants ==
  MainSpec => [](TypeOK /\ NoModuleTwiceOnStack /\ OnlyCompleteSetsAreCopied)
<1>1. ModuleInv => TypeOK /\ NoModuleTwiceOnStack /\ OnlyCompleteSetsAreCopied
  BY DEF ModuleInv, TypeInv, StackInv, SearchInv
<1> QED
  BY <1>1, MainModuleInv, PTL

\* MainSpec => ImplementsModuleSet: the program does with the module tree what
\* ModuleSet says.
THEOREM MainImplementsModuleSet == MainSpec => ImplementsModuleSet
<1>1. MainInit => M!Init
  BY DEF MainInit, Start, SetState, M!Init
<1> QED
  BY <1>1, MainModuleInv, MainSteps, StepModuleSet, PTL DEF MainSpec, ImplementsModuleSet, M!Spec

----------------------------------------------------------------------------
(***************************************************************************)
(* --modalias.  Only the modules of the device that is being read may be   *)
(* missing from what the walk has passed.                                  *)
(***************************************************************************)
ListTypes ==
  /\ ML!System(sys)
  /\ mpc \in {"start", "loaded", "walk", "file", "ok", "err"}
  /\ mnext \in Nat \ {0}
  /\ plugged \subseteq Devices /\ steady \subseteq Devices /\ walked \subseteq Devices
  /\ mpc = "file" => dev \in walked

LoadedListed ==
  /\ mpc = "start" => mnext = 1
  /\ mpc \in {"loaded", "walk", "file", "ok"} =>
       \A k \in DOMAIN sys.loaded : (mpc = "loaded" => k < mnext) =>
         {sys.name[sys.loaded[k]]} \cup ML!NamesFound(sys.name[sys.loaded[k]]) \subseteq modules

WalkedListed ==
  /\ mpc \in {"start", "loaded"} => walked = {}
  /\ mpc # "err" => \A d \in walked : (mpc = "file" /\ d = dev) \/ ML!AskedFor(d) \subseteq modules
  /\ mpc = "ok" => steady \ sys.hidden \subseteq walked

NothingElseListed == modules \subseteq ML!NamesLoaded \cup UNION {ML!AskedFor(d) : d \in Devices}

ListInv ==
  ListTypes /\ LoadedListed /\ WalkedListed /\ NothingElseListed /\ ListErrorsAreExplained

\* What the definitions say of one loaded module, and that `sys` fixes them.
LEMMA LoadedNames ==
  /\ \A k \in DOMAIN sys.loaded :
       {sys.name[sys.loaded[k]]} \cup ML!NamesFound(sys.name[sys.loaded[k]]) \subseteq ML!NamesLoaded
  /\ sys' = sys => /\ ML!NamesLoaded' = ML!NamesLoaded
                   /\ \A d : ML!AskedFor(d)' = ML!AskedFor(d)
                   /\ \A a : ML!NamesFound(a)' = ML!NamesFound(a)
<1>1. \A k \in DOMAIN sys.loaded :
        {sys.name[sys.loaded[k]]} \cup ML!NamesFound(sys.name[sys.loaded[k]]) \subseteq ML!NamesLoaded
  BY DEF ML!NamesLoaded
<1>2. ASSUME sys' = sys PROVE \A a : ML!NamesFound(a)' = ML!NamesFound(a)
  BY <1>2 DEF ML!NamesFound, ML!Found
<1>3. ASSUME sys' = sys PROVE ML!NamesLoaded' = ML!NamesLoaded
  BY <1>3, <1>2 DEF ML!NamesLoaded
<1>4. ASSUME sys' = sys PROVE \A d : ML!AskedFor(d)' = ML!AskedFor(d)
  BY <1>4, <1>2 DEF ML!AskedFor
<1> QED
  BY <1>1, <1>2, <1>3, <1>4

\* Every step of modalias_list(), and of a device that comes or goes, keeps
\* ListInv.
LEMMA StepListInv == ListInv /\ [ML!Next]_listVars => ListInv'
<1> SUFFICES ASSUME ListInv, [ML!Next]_listVars PROVE ListInv'
  OBVIOUS
<1> USE DEF ListInv
<1>1. CASE ML!CreateContext
  <2>1. sys' = sys /\ mnext' = mnext /\ mpc = "start" /\ UNCHANGED <<plugged, steady, walked, dev, modules>>
        /\ mpc' = (IF sys.kmod THEN "loaded" ELSE "err")
    BY <1>1 DEF ML!CreateContext, ML!devices, ML!devices
  <2>2. \A k \in DOMAIN sys.loaded : ~(k < 1)
    BY DEF ListTypes, ML!System
  <2>3. ListTypes' /\ LoadedListed' /\ WalkedListed' /\ NothingElseListed'
    BY <2>1, <2>2, LoadedNames DEF ListTypes, LoadedListed, WalkedListed, NothingElseListed
  <2> QED
    BY <2>1, <2>3 DEF ListErrorsAreExplained, ML!ErrorsAreExplained
<1>2. CASE ML!AddLoaded
  <2>1. /\ mpc = "loaded" /\ mnext \in DOMAIN sys.loaded
        /\ UNCHANGED <<sys, plugged, steady, walked, dev>>
    BY <1>2 DEF ML!AddLoaded, ML!devices, ListTypes, ML!System
  <2>2. PICK m : m = sys.loaded[mnext]
    OBVIOUS
  <2>3. CASE m \in sys.nameless \/ ML!LookupFails(sys.name[m])
    <3>1. mpc' = "err" /\ modules' = modules /\ mnext' = mnext
      BY <1>2, <2>2, <2>3 DEF ML!AddLoaded, ML!devices, ML!devices
    <3>2. sys.lookupErr # {} \/ sys.nameless # {}
      BY <2>3 DEF ML!LookupFails
    <3>3. ListTypes' /\ LoadedListed' /\ WalkedListed' /\ NothingElseListed'
      BY <2>1, <3>1, LoadedNames DEF ListTypes, LoadedListed, WalkedListed, NothingElseListed
    <3> QED
      BY <2>1, <3>2, <3>3 DEF ListErrorsAreExplained, ML!ErrorsAreExplained
  <2>4. CASE ~(m \in sys.nameless \/ ML!LookupFails(sys.name[m]))
    <3>1. /\ modules' = modules \cup {sys.name[m]} \cup ML!NamesFound(sys.name[m])
          /\ mnext' = mnext + 1 /\ mpc' = mpc
      BY <1>2, <2>2, <2>4 DEF ML!AddLoaded, ML!devices, ML!devices
    <3>2. ListTypes'
      BY <2>1, <3>1 DEF ListTypes
    <3>3. LoadedListed'
      <4>1. \A k \in DOMAIN sys.loaded : k < mnext + 1 => k < mnext \/ k = mnext
        BY DEF ListTypes, ML!System
      <4> QED
        BY <2>1, <2>2, <3>1, <4>1, LoadedNames DEF LoadedListed
    <3>4. WalkedListed' /\ NothingElseListed'
      BY <2>1, <2>2, <3>1, LoadedNames DEF WalkedListed, NothingElseListed
    <3> QED
      BY <2>1, <3>1, <3>2, <3>3, <3>4 DEF ListErrorsAreExplained, ML!ErrorsAreExplained
  <2> QED
    BY <2>3, <2>4
<1>3. CASE ML!AllLoaded
  <2>1. /\ mpc = "loaded" /\ mpc' = "walk" /\ mnext > Len(sys.loaded)
        /\ UNCHANGED <<sys, mnext, plugged, walked, dev, modules>> /\ steady' = plugged
    BY <1>3 DEF ML!AllLoaded
  <2>2. \A k \in DOMAIN sys.loaded : k < mnext
    BY <2>1 DEF ListTypes, ML!System
  <2> QED
    BY <2>1, <2>2, LoadedNames DEF ListTypes, LoadedListed, WalkedListed, NothingElseListed,
       ListErrorsAreExplained, ML!ErrorsAreExplained
<1>4. ASSUME NEW d \in Devices, ML!Walk(d) PROVE ListInv'
  <2>1. /\ mpc = "walk" /\ mpc' = "file" /\ dev' = d /\ walked' = walked \cup {d}
        /\ UNCHANGED <<sys, mnext, plugged, steady, modules>>
    BY <1>4 DEF ML!Walk, ML!devices, ML!devices
  <2> QED
    BY <2>1, LoadedNames DEF ListTypes, LoadedListed, WalkedListed, NothingElseListed,
       ListErrorsAreExplained, ML!ErrorsAreExplained
<1>5. CASE ML!FileFails
  <2>1. /\ mpc = "file" /\ mpc' = "err" /\ UNCHANGED <<sys, mnext, plugged, steady, walked, dev, modules>>
        /\ ML!ReadFails \/ ML!BadAlias
    BY <1>5 DEF ML!FileFails, ML!devices, ML!OnError
  <2>2. ListErrorsAreExplained'
    BY <2>1 DEF ListTypes, ML!ReadFails, ML!BadAlias, ML!LookupFails, ListErrorsAreExplained,
       ML!ErrorsAreExplained
  <2> QED
    BY <2>1, <2>2, LoadedNames DEF ListTypes, LoadedListed, WalkedListed, NothingElseListed
<1>6. CASE ML!AddDevice
  <2>1. /\ mpc = "file" /\ mpc' = "walk" /\ modules' = modules \cup ML!AskedFor(dev)
        /\ UNCHANGED <<sys, mnext, plugged, steady, walked, dev>> /\ dev \in Devices
    BY <1>6 DEF ML!AddDevice, ML!devices, ListTypes
  <2> QED
    BY <2>1, LoadedNames DEF ListTypes, LoadedListed, WalkedListed, NothingElseListed,
       ListErrorsAreExplained, ML!ErrorsAreExplained
<1>7. CASE ML!AllWalked
  BY <1>7, LoadedNames DEF ML!AllWalked, ML!InSight, ML!devices, ListTypes, LoadedListed, WalkedListed, NothingElseListed,
     ListErrorsAreExplained, ML!ErrorsAreExplained
<1>8. ASSUME NEW d \in Devices, ML!Plug(d) \/ ML!Unplug(d) PROVE ListInv'
  BY <1>8, LoadedNames DEF ML!Plug, ML!Unplug, ML!Running, ListTypes, LoadedListed, WalkedListed, NothingElseListed,
     ListErrorsAreExplained, ML!ErrorsAreExplained
<1>9. CASE UNCHANGED listVars
  BY <1>9, LoadedNames DEF listVars, ListTypes, LoadedListed, WalkedListed, NothingElseListed,
     ListErrorsAreExplained, ML!ErrorsAreExplained
<1> QED
  BY <1>1, <1>2, <1>3, <1>4, <1>5, <1>6, <1>7, <1>8, <1>9 DEF ML!Next, ML!List

\* Every reachable state satisfies the invariant of the list.
LEMMA ListInvariant == MainSpec => []ListInv
<1>1. MainInit => ListInv
  <2> SUFFICES ASSUME MainInit PROVE ListInv
    OBVIOUS
  <2>1. ML!System(sys) /\ ML!Start
    BY MainAssumption DEF MainInit
  <2> QED
    BY <2>1 DEF ML!System, ML!Start, ListInv, ListTypes, LoadedListed, WalkedListed, NothingElseListed,
       ListErrorsAreExplained, ML!ErrorsAreExplained
<1>2. [MainNext]_mainVars => [ML!Next]_listVars
  BY DEF MainNext, Program, ReadOptions, SetUp, ListModules, ListReturns, Install, InstallReturns,
         FilesReturn, PlugOrUnplug, Goto, mainVars, ML!Next
<1> QED
  BY <1>1, <1>2, StepListInv, PTL DEF MainSpec

\* MainSpec => []ListIsComplete: whatever devices come and go, a list that is
\* printed lacks no module of a device that was there throughout the walk and
\* that the walk could reach.
THEOREM ModaliasListIsComplete == MainSpec => []ListIsComplete
<1>1. ListInv => ListIsComplete
  <2> SUFFICES ASSUME ListInv PROVE ListIsComplete
    OBVIOUS
  <2>1. ASSUME mpc = "ok" PROVE ML!NamesLoaded \subseteq modules
    BY <2>1 DEF ListInv, LoadedListed, ML!NamesLoaded
  <2>2. ASSUME mpc = "ok" PROVE UNION {ML!AskedFor(d) : d \in steady \ sys.hidden} \subseteq modules
    BY <2>2 DEF ListInv, WalkedListed
  <2> QED
    BY <2>1, <2>2 DEF ListInv, NothingElseListed, ListIsComplete, ML!ListIsComplete
<1> QED
  BY <1>1, ListInvariant, PTL

\* MainSpec => []ListErrorsAreExplained.
THEOREM ModaliasErrorsAreExplained == MainSpec => []ListErrorsAreExplained
<1>1. ListInv => ListErrorsAreExplained
  BY DEF ListInv
<1> QED
  BY <1>1, ListInvariant, PTL
=============================================================================
