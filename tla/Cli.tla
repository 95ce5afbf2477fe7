---------------------------------- MODULE Cli ----------------------------------
(***************************************************************************)
(* The command `gel' of the driver's package (packages/gel/src/cli.mts): a *)
(* wrapper that looks for the real CLI in PATH, downloads it into a cache  *)
(* that all launches share, and runs it.  Launches are processes; any may  *)
(* be killed, and two may be under way together.  The file is the set of   *)
(* its chunks that are on disk.                                            *)
(***************************************************************************)
EXTENDS Naturals, Sequences, SequencesExt, FiniteSetsExt

CONSTANTS
  Paths,      \* what PATH may lead to
  Indexes,    \* what the server may offer
  Launches,   \* of the command
  Size        \* the chunks of a CLI

(* The files called SCRIPT_NAME.  "self" is this script, "script" a .cmd   *)
(* or .ps1 of Windows, "bin" a shell script of pnpm in node_modules/.bin,  *)
(* "wrapper" another install of the package; "cli" is the real one, which  *)
(* does not know --succeed-if-cli-bin-wrapper.                             *)
Wrappers == {"self", "script", "bin", "wrapper"}
InPath == Wrappers \cup {"cli"}

(* Whether a package is a CLI, its version (those from 1 on are in the     *)
(* range asked for) and its revision.  Revisions are strings, compared as  *)
(* such; the number is the rank in that order, so "later" and "latest" are *)
(* what the strings say, which need not be what they were made to say.     *)
Package == [cli : BOOLEAN, version : Nat, revision : Nat]

CliAssumption == Paths \subseteq Seq(InPath) /\ Indexes \subseteq Seq(Package) /\ Size \in Nat \ {0}

----------------------------------------------------------------------------
(* The position in PATH of the one to run, 0 if there is none. *)
whichGelCli(path) ==
  LET real == {n \in DOMAIN path : path[n] \notin Wrappers} IN IF real = {} THEN 0 ELSE Min(real)

(* No wrapper is launched, for that would look in PATH in its turn; the    *)
(* CLI is found wherever it is.                                            *)
PathFits(path) ==
  LET n == whichGelCli(path) IN IF "cli" \in ToSet(path) THEN n # 0 /\ path[n] = "cli" ELSE n = 0

----------------------------------------------------------------------------
NoPackage == [cli |-> FALSE, version |-> 0, revision |-> 0]

(* The map has one package for each version, in the order in which they    *)
(* came; one with a later revision takes the place of the one before.      *)
SetVersion(map, pkg) ==
  IF \A n \in DOMAIN map : map[n].version # pkg.version THEN Append(map, pkg)
  ELSE [n \in DOMAIN map |-> IF map[n].version = pkg.version /\ map[n].revision < pkg.revision THEN pkg ELSE map[n]]
VersionMaps(index) ==
  LET map[n \in 0 .. Len(index)] ==
        IF n = 0 THEN <<>> ELSE IF index[n].cli THEN SetVersion(map[n - 1], index[n]) ELSE map[n - 1]
  IN map
getVersionMap(index) == VersionMaps(index)[Len(index)]

Newer(pkg, best) == IF pkg.version >= 1 /\ (best = NoPackage \/ pkg.version > best.version) THEN pkg ELSE best
MatchingPkgs(map) ==
  LET best[n \in 0 .. Len(map)] == IF n = 0 THEN NoPackage ELSE Newer(map[n], best[n - 1])
  IN best
getMatchingPkg(map) == MatchingPkgs(map)[Len(map)]

(* The newest compatible CLI, and its latest revision. *)
PackageFits(index) ==
  LET fit == {p \in ToSet(index) : p.cli /\ p.version >= 1}
      best == getMatchingPkg(getVersionMap(index))
  IN IF fit = {} THEN best = NoPackage
     ELSE best \in fit /\ \A p \in fit : p.version < best.version \/ (p.version = best.version /\ p.revision <= best.revision)

----------------------------------------------------------------------------
(* Launches.  chunks: of the cached file, {} also before there is one;     *)
(* exec: its mode lets it be run.  installed: the CLI has installed itself *)
(* where its `info' says.  calm: so far no launch met another or went on   *)
(* before its writes were on disk.                                         *)
(*   at       what a launch awaits                                         *)
(*   second   it is in the second getCachedCliLocation()                   *)
(*   opened, got, flushed   its write stream: the file is open, chunks     *)
(*            handed to write(), chunks on disk                            *)
(*   ran      "nothing", "cached", "installed" or "partial"                *)
(*   hurt     it was killed, or the network failed it                      *)
Idle ==
  [at |-> "idle", second |-> FALSE, opened |-> FALSE, got |-> 0, flushed |-> 0, ran |-> "nothing", hurt |-> FALSE]

InitCli ==
  {[there |-> FALSE, chunks |-> {}, exec |-> FALSE, installed |-> i, calm |-> TRUE, launch |-> [l \in Launches |-> Idle]] :
     i \in BOOLEAN}

Ended == {"done", "failed"}
Alive(s, l) == s.launch[l].at \notin Ended \cup {"idle"}
Go(s, l, at) == [s EXCEPT !.launch[l].at = at]
Whole(s) == s.chunks = 1 .. Size
(* The system refuses to run a file that somebody writes. *)
Busy(s) == \E l \in Launches : Alive(s, l) /\ s.launch[l].opened /\ s.launch[l].flushed < Size

(* PATH has no CLI.  *)
main(s, l) == {[Go(s, l, "stat") EXCEPT !.calm = @ /\ \A o \in Launches \ {l} : ~Alive(s, o)]}

(* getCachedCliLocation(): a file that is there is taken as it is. *)
Stat(s, l) == {Go(s, l, IF s.there THEN "access" ELSE "fetch")}

(* findPackage() and the response; then createWriteStream(), which opens   *)
(* the file later.                                                         *)
Fetch(s, l) == {Go(s, l, "receive"), [Go(s, l, "failed") EXCEPT !.launch[l].hurt = TRUE]}

(* downloadFile() does not wait for what it writes, nor for end(). *)
Receive(s, l) ==
  IF s.launch[l].got < Size
  THEN {[s EXCEPT !.launch[l].got = @ + 1], [Go(s, l, "failed") EXCEPT !.launch[l].hurt = TRUE]}
  ELSE {Go(s, l, "chmod")}

Opens(s, l) ==
  IF s.launch[l].at \in {"receive", "chmod", "access", "info"} /\ ~s.launch[l].opened /\ s.launch[l].got > 0
  THEN {[s EXCEPT !.there = TRUE, !.chunks = {}, !.launch[l].opened = TRUE]}
  ELSE {}
Flush(s, l) ==
  IF Alive(s, l) /\ s.launch[l].opened /\ s.launch[l].flushed < s.launch[l].got
  THEN {[s EXCEPT !.chunks = @ \cup {s.launch[l].flushed + 1}, !.launch[l].flushed = @ + 1]}
  ELSE {}

(* The end of downloadCliPackage().  Mutant: the mode is not set. *)
ChmodForgotten(s, l) == {Go(s, l, "access")}
Chmod(s, l) ==
  {IF s.there THEN [Go(s, l, "access") EXCEPT !.exec = TRUE, !.calm = @ /\ s.launch[l].flushed = Size]
   ELSE [Go(s, l, "failed") EXCEPT !.calm = FALSE]}

(* The cached file is executed: for its `info', or for good. *)
Run(s, l, then) ==
  {IF ~s.exec \/ Busy(s) THEN Go(s, l, "failed")
   ELSE IF Whole(s) THEN then ELSE [Go(s, l, "failed") EXCEPT !.launch[l].ran = "partial"]}

Access(s, l) ==
  IF ~s.there THEN {Go(s, l, "failed")}
  ELSE IF s.launch[l].second THEN Run(s, l, [Go(s, l, "done") EXCEPT !.launch[l].ran = "cached"])
  ELSE {Go(s, l, "info")}

(* getCliLocationFromCachedCli(): the CLI that was installed comes first,  *)
(* and if there is none main() asks for the cached one again.              *)
getInstallDir(s, l) ==
  Run(s, l, IF s.installed THEN [Go(s, l, "done") EXCEPT !.launch[l].ran = "installed"]
            ELSE [Go(s, l, "stat") EXCEPT !.launch[l].second = TRUE])

Killed(s, l) ==
  IF Alive(s, l) THEN {[Go(s, l, "failed") EXCEPT !.launch[l].hurt = TRUE]} ELSE {}

CliStep(s) ==
  UNION {Opens(s, l) \cup Flush(s, l) \cup Killed(s, l) \cup
         CASE s.launch[l].at = "idle" -> main(s, l)
           [] s.launch[l].at = "stat" -> Stat(s, l)
           [] s.launch[l].at = "fetch" -> Fetch(s, l)
           [] s.launch[l].at = "receive" -> Receive(s, l)
           [] s.launch[l].at = "chmod" -> Chmod(s, l)
           [] s.launch[l].at = "access" -> Access(s, l)
           [] s.launch[l].at = "info" -> getInstallDir(s, l)
           [] OTHER -> {} : l \in Launches}

(* One after the other, no launch runs a CLI that was cut off, and only    *)
(* after one that was killed or that the network failed does one fail.     *)
LaunchesFit(s) ==
  s.calm =>
    /\ \A l \in Launches : s.launch[l].ran # "partial"
    /\ (\A l \in Launches : ~s.launch[l].hurt) => \A l \in Launches : s.launch[l].at # "failed"
================================================================================
