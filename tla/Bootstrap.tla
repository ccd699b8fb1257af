------------------------------ MODULE Bootstrap ------------------------------
(***************************************************************************)
(* bootstrap, which installs mas-est into a directory of the host, and     *)
(* update, which runs the bootstrap of a newer release over it. The new    *)
(* runtime is staged beside the old one and swapped in; the swap is a few  *)
(* steps, each of which may fail, and the process may be killed between    *)
(* any two. Several may run at once.                                       *)
(***************************************************************************)
EXTENDS Naturals, FiniteSets

CONSTANTS
    MaxBoots,    \* bound: runs of bootstrap, alone or out of an update
    Versions,    \* the versions there may be, pre-releases too
    MaxFaults,   \* bound: failures and kills
    None,
    Partial      \* a launcher that could not be written whole

\* Scripts, manifests and environment, and the binaries. They are copied in any
\* order: the table of populateRuntimeTree is a Go map.
Parts == {"scripts", "data", "bin"}

Boots == 1..MaxBoots

Version == [core: Nat, pre: BOOLEAN]

Releases == {v \in Versions : ~v.pre}

ASSUME BootstrapAssumption ==
    /\ Versions \subseteq Version /\ {MaxBoots, MaxFaults} \subseteq Nat
    /\ {None, Partial} \cap Versions = {}

VARIABLES
    runtime,    \* the runtime directory: None, or its version and the parts it has
    launcher,   \* the version the launcher is of, or None
    tmp,        \* the launcher about to be renamed, or Partial of it; one name for all
    staging,    \* per bootstrap: the parts staged, or None
    pc, version, forced,
    how,        \* how that was chosen: "asked" for, by --version or --force; or "newer"
                \* than what there was, by an update without them
    \* history and bounds
    met,        \* bootstraps beside which another one ran
    over,       \* such updates during which another one installed a runtime
    cut,        \* one was stopped while it took the old runtime away
    faults

bootVars == <<pc, version, forced, how>>
vars == <<runtime, launcher, tmp, staging, bootVars, met, over, cut, faults>>

Init ==
    /\ \/ runtime = None /\ launcher = None
       \/ \E v \in Versions : runtime = [version |-> v, parts |-> Parts] /\ launcher = v
    /\ tmp = None /\ staging = [b \in Boots |-> None]
    /\ pc = [b \in Boots |-> "off"] /\ version = [b \in Boots |-> None]
    /\ forced = [b \in Boots |-> FALSE] /\ how = [b \in Boots |-> "asked"]
    /\ met = {} /\ over = {} /\ cut = FALSE /\ faults = 0

Ended   == {"off", "done", "failed", "killed"}
Busy    == {b \in Boots : pc[b] \notin Ended}
Goes(b, s) == pc' = [pc EXCEPT ![b] = s]
Fault   == faults < MaxFaults /\ faults' = faults + 1

-----------------------------------------------------------------------------
(* Start of a bootstrap. *)

\* Numbered as they begin; the image is pulled until the check. What those that
\* have ended were asked for is forgotten. Bound: beside one other at most.
Begin(b, v, f, h) ==
    /\ pc[b] = "off" /\ \A c \in 1..(b - 1) : pc[c] # "off"
    /\ Cardinality(Busy) <= 1
    /\ version' = [c \in Boots |-> IF c = b THEN v ELSE IF c \in Busy THEN version[c] ELSE None]
    /\ forced' = [c \in Boots |-> IF c = b THEN f ELSE c \in Busy /\ forced[c]]
    /\ how' = [c \in Boots |-> IF c = b THEN h ELSE IF c \in Busy THEN how[c] ELSE "asked"]
    /\ met' = (IF Busy = {} THEN met ELSE met \cup Busy \cup {b})
    /\ over' = over \cap Busy
    /\ Goes(b, "check")

\* podman run ... bootstrap, by hand or by an update with --version (and --force,
\* when that version is installed already).
Bootstrap(b) ==
    /\ \E v \in Versions, f \in BOOLEAN : Begin(b, v, f, "asked")
    /\ UNCHANGED <<runtime, launcher, tmp, staging, cut, faults>>

\* The launcher looks for its binary and its scripts, not into them.
Launches ==
    launcher # None /\ runtime # None /\ {"bin", "scripts"} \subseteq runtime.parts

\* A release of the core of a pre-release is newer.
Newer(a, b) == IF a.core # b.core THEN a.core > b.core ELSE b.pre /\ ~a.pre

Latest(v, published) == v \in published /\ \A w \in published : w = v \/ Newer(v, w)

\* Mutant: any other version will do.
OtherRelease(v) == v # runtime.version

Forward(v) == Newer(v, runtime.version)

\* Without --version it is the newest release the registry has by then, and without
\* --force only forward.
Update(b) ==
    /\ Launches
    /\ \E published \in SUBSET Releases, v \in Versions, force \in BOOLEAN :
          /\ Latest(v, published) /\ (force \/ Forward(v))
          /\ Begin(b, v, TRUE, IF force THEN "asked" ELSE "newer")
    /\ UNCHANGED <<runtime, launcher, tmp, staging, cut, faults>>

-----------------------------------------------------------------------------
(* The bootstrap. *)

\* Mutant: the runtime is not looked for.
LauncherOnly(b) == ~forced[b] /\ launcher # None

Exists(b) == ~forced[b] /\ (launcher # None \/ runtime # None)

Check(b) ==
    /\ pc[b] = "check"
    /\ IF Exists(b) THEN Goes(b, "failed") /\ UNCHANGED staging
       ELSE Goes(b, "stage") /\ staging' = [staging EXCEPT ![b] = {}]
    /\ UNCHANGED <<runtime, launcher, tmp, version, forced, how, met, over,
                   cut, faults>>

\* Mutant: the copy ends with what the launcher looks for.
CoreStaged(b) == {"scripts", "bin"} \subseteq staging[b]

AllStaged(b) == staging[b] = Parts

Stage(b) ==
    /\ pc[b] = "stage"
    /\ IF AllStaged(b) THEN Goes(b, "launcher") /\ UNCHANGED staging
       ELSE /\ \E p \in Parts \ staging[b] : staging' = [staging EXCEPT ![b] = @ \cup {p}]
            /\ UNCHANGED pc
    /\ UNCHANGED <<runtime, launcher, tmp, version, forced, how, met, over,
                   cut, faults>>

\* Mutant: a launcher that is there already is taken.
Reused(b) == IF tmp = None THEN version[b] ELSE tmp

Written(b) == version[b]

WriteLauncher(b) ==
    /\ pc[b] = "launcher"
    /\ tmp' = Written(b)
    /\ Goes(b, IF forced[b] THEN "remove" ELSE "install")
    /\ UNCHANGED <<runtime, launcher, staging, version, forced, how, met, over,
                   cut, faults>>

\* RemoveAll, entry by entry, of whatever is at that path by now.
RemoveRuntime(b) ==
    /\ pc[b] = "remove"
    /\ \/ /\ runtime # None /\ runtime.parts # {}
          /\ \E p \in runtime.parts : runtime' = [runtime EXCEPT !.parts = @ \ {p}]
          /\ UNCHANGED pc
       \/ /\ runtime # None /\ runtime.parts = {} /\ runtime' = None
          /\ Goes(b, "unlink")
       \/ runtime = None /\ Goes(b, "unlink") /\ UNCHANGED runtime
    /\ UNCHANGED <<launcher, tmp, staging, version, forced, how, met, over,
                   cut, faults>>

RemoveLauncher(b) ==
    /\ pc[b] = "unlink"
    /\ launcher' = None
    /\ Goes(b, "install")
    /\ UNCHANGED <<runtime, tmp, staging, version, forced, how, met, over,
                   cut, faults>>

\* os.Rename does not put a directory over another. The others that run looked at
\* another runtime.
InstallRuntime(b) ==
    /\ pc[b] = "install" /\ runtime = None
    /\ runtime' = [version |-> version[b], parts |-> staging[b]]
    /\ staging' = [staging EXCEPT ![b] = None]
    /\ cut' = FALSE /\ over' = {c \in Busy \ {b} : how[c] = "newer"}
    /\ Goes(b, "swap")
    /\ UNCHANGED <<launcher, tmp, version, forced, how, met, faults>>

\* The last defer removes a launcher written meanwhile, by another one, too.
InstallLauncher(b) ==
    /\ pc[b] = "swap" /\ tmp # None
    /\ launcher' = tmp /\ tmp' = None
    /\ Goes(b, "done")
    /\ UNCHANGED <<runtime, staging, version, forced, how, met, over, cut, faults>>

\* What cannot succeed: another bootstrap was faster, or took the launcher away.
Blocked(b) == (pc[b] = "install" /\ runtime # None) \/ (pc[b] = "swap" /\ tmp = None)

\* The deferred calls: RemoveAll of the staging directory, and Remove of the new
\* launcher once it is written; a part of it stays when that fails.
Defers(b) ==
    /\ staging' = [staging EXCEPT ![b] = None]
    /\ CASE pc[b] \in {"check", "stage"} -> tmp' = tmp
         [] pc[b] = "launcher" -> tmp' \in {tmp, Partial}
         [] OTHER -> tmp' = None

Fails(b) ==
    /\ b \in Busy
    /\ Fault \/ (Blocked(b) /\ UNCHANGED faults)
    /\ Defers(b)
    /\ cut' = (cut \/ pc[b] = "remove")
    /\ Goes(b, "failed")
    /\ UNCHANGED <<runtime, launcher, version, forced, how, met, over>>

\* The container is stopped: no deferred call runs. What is in the staging
\* directory it leaves behind is never looked at; the launcher may be half written.
Killed(b) ==
    /\ b \in Busy /\ Fault
    /\ cut' = (cut \/ pc[b] = "remove")
    /\ staging' = [staging EXCEPT ![b] = IF @ = None THEN None ELSE {}]
    /\ tmp' \in IF pc[b] = "launcher" THEN {tmp, Partial} ELSE {tmp}
    /\ Goes(b, "killed")
    /\ UNCHANGED <<runtime, launcher, version, forced, how, met, over>>

-----------------------------------------------------------------------------
Step(b) ==
    \/ Check(b) \/ Stage(b) \/ WriteLauncher(b) \/ RemoveRuntime(b)
    \/ RemoveLauncher(b) \/ InstallRuntime(b) \/ InstallLauncher(b) \/ Fails(b)

Next ==
    \E b \in Boots : Bootstrap(b) \/ Update(b) \/ Step(b) \/ Killed(b)

Spec == Init /\ [][Next]_vars

-----------------------------------------------------------------------------
(* Properties. *)

Runtimes == [version: Versions, parts: SUBSET Parts]

TypeOK ==
    /\ runtime = None \/ runtime \in Runtimes
    /\ launcher \in Versions \cup {None, Partial} /\ tmp \in Versions \cup {None, Partial}
    /\ \A b \in Boots : staging[b] = None \/ staging[b] \subseteq Parts
    /\ \A b \in Boots : pc[b] \in {"remove", "unlink", "install"} => staging[b] = Parts
    /\ pc \in [Boots -> Ended \cup
                          {"check", "stage", "launcher", "remove", "unlink", "install", "swap"}]
    /\ version \in [Boots -> Versions \cup {None}]
    /\ forced \in [Boots -> BOOLEAN] /\ how \in [Boots -> {"asked", "newer"}]
    /\ met \subseteq Boots /\ over \subseteq Boots
    /\ cut \in BOOLEAN /\ faults \in 0..MaxFaults

\* A launcher that starts has all of its runtime behind it, not just what it looks
\* for; but while an old runtime is being taken away, or after that was cut short.
LaunchesWhole ==
    Launches => runtime.parts = Parts \/ cut \/ \E b \in Boots : pc[b] = "remove"

\* After a bootstrap that ended well, alone, runtime and launcher are its own,
\* whatever was left behind by others before it; until the next one begins.
OneVersion ==
    \A b \in Boots : version[b] # None /\ pc[b] = "done" /\ b \notin met =>
        runtime = [version |-> version[b], parts |-> Parts] /\ launcher = version[b]

\* A bootstrap alone is never stopped by what others have left behind.
AloneNotBlocked == \A b \in Boots : Blocked(b) => b \in met

\* Only killed bootstraps leave something behind, and those that could not write.
LitterOnlyByKill ==
    /\ \A b \in Boots : pc[b] \in {"off", "done", "failed"} => staging[b] = None
    /\ Busy = {} /\ tmp \in Versions => \E b \in Boots : pc[b] = "killed"

\* At any moment the directory starts all of a runtime or says that there is none.
HostIsSound == TypeOK /\ LaunchesWhole /\ LitterOnlyByKill

\* The old runtime is being taken away for the version of b.
TakesAway(b) == pc[b] = "remove" /\ runtime # None /\ runtime' # runtime

\* An update without --version and --force takes away nothing that is as new as what
\* it brings, whoever runs beside it, but what was installed since it looked.
OnlyForward ==
    [][\A b \in Boots : how[b] = "newer" /\ TakesAway(b) =>
          Newer(version[b], runtime.version) \/ b \in over]_vars
=============================================================================
