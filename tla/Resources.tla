------------------------------ MODULE Resources ------------------------------
(***************************************************************************)
(* How worklets find and extract the resources of the application          *)
(* (src/src/worklet.js start, extract and write; create_resources and      *)
(* readResource of src/src/android/resources.c and apple/resources.c).     *)
(*                                                                         *)
(* Any number of worklets extract the same resources into the same         *)
(* directory, each may be killed between any two steps, and what it has    *)
(* put on disk stays.  Updates of the application, which kill every        *)
(* worklet and clear the directory, replace what there is to extract.      *)
(* The contents of a file are the version it was read from.                *)
(***************************************************************************)
EXTENDS Integers

CONSTANTS
  Worklets,
  Keys,        \* the resources that a listing may list
  Listing,     \* the listing itself, <name>.assets
  MaxVersion   \* bound on the versions of the application

ASSUME ResourcesAssumption == Listing \notin Keys /\ MaxVersion \in Nat \ {0}

VARIABLES
  dir,       \* what create_resources gives: "none", "bundle" or "apk"
  version,   \* the version of the application
  packed,    \* the resources in its APK, the listing among them if it has one
  listed,    \* the keys that the listing lists
  disk,      \* disk[f]: contents of file f in the directory
  tmp,       \* tmp[w]: contents of the temporary file that w writes
  stage,     \* stage[w]: where worklet w is, below
  todo,      \* todo[w]: the keys it has yet to extract
  current    \* current[w]: the file it writes

vars == <<dir, version, packed, listed, disk, tmp, stage, todo, current>>

Files == Keys \cup {Listing}

\* No file, and one that is written in part.
Absent  == 0
Partial == -1

Contents == {Absent, Partial} \cup 1 .. MaxVersion

(***************************************************************************)
(* A worklet is not there; looks for the listing; goes through its keys;   *)
(* writes a temporary file; has written it; loads its program; runs it; or *)
(* has thrown.                                                             *)
(***************************************************************************)
Stage == {"none", "check", "key", "writing", "written", "load", "loaded", "failed"}

\* bare_kit__create_resources: the resources of the application bundle, which are
\* found in place, if the executable is in one ...
AppleResources == {"none", "bundle"}

\* ... or the code cache directory of the application context, if one was given,
\* and a function that reads from the APK.
AndroidResources == {"none", "apk"}

TypeOK ==
  /\ dir \in AppleResources \cup AndroidResources
  /\ version \in 1 .. MaxVersion
  /\ packed \subseteq Files
  /\ listed \subseteq Keys
  /\ disk \in [Files -> Contents]
  /\ tmp \in [Worklets -> Contents]
  /\ stage \in [Worklets -> Stage]
  /\ todo \in [Worklets -> SUBSET Keys]
  /\ current \in [Worklets -> Files]

\* An application that was just installed.
Init ==
  /\ dir \in AppleResources \cup AndroidResources
  /\ version = 1
  /\ packed \in SUBSET Files
  /\ listed \in SUBSET Keys
  /\ disk = [f \in Files |-> Absent]
  /\ tmp = [w \in Worklets |-> Absent]
  /\ stage = [w \in Worklets |-> "none"]
  /\ todo = [w \in Worklets |-> {}]
  /\ current = [w \in Worklets |-> Listing]

-----------------------------------------------------------------------------

Goto(w, s) == stage' = [stage EXCEPT ![w] = s]

\* exports.start: a relative file name is a resource, and there is something to
\* extract where resources are read rather than found in place.
Start(w, relative) ==
  /\ stage[w] = "none"
  /\ Goto(w, IF dir = "apk" /\ relative THEN "check" ELSE "load")
  /\ UNCHANGED <<dir, version, packed, listed, disk, tmp, todo, current>>

\* Faulty: any resource that is there is taken for all of them.
MutCheckAny(w) ==
  /\ stage[w] = "check"
  /\ IF (\E f \in Files : disk[f] # Absent) \/ Listing \notin packed
       THEN Goto(w, "load") /\ UNCHANGED todo
       ELSE Goto(w, "key") /\ todo' = [todo EXCEPT ![w] = listed]
  /\ UNCHANGED <<dir, version, packed, listed, disk, tmp, current>>

\* extract: nothing is done where the listing was extracted, or there is none.
Check(w) ==
  /\ stage[w] = "check"
  /\ IF disk[Listing] # Absent \/ Listing \notin packed
       THEN Goto(w, "load") /\ UNCHANGED todo
       ELSE Goto(w, "key") /\ todo' = [todo EXCEPT ![w] = listed]
  /\ UNCHANGED <<dir, version, packed, listed, disk, tmp, current>>

\* Faulty: the listing is not left for last.
MutNextFile(w) == todo[w] \cup {Listing}

\* What is extracted next: the keys, and then the listing.
NextFile(w) == IF todo[w] # {} THEN todo[w] ELSE {Listing}

\* readResource: a resource that is listed but not packed is an error; ...
ReadMissing(w, f) ==
  /\ stage[w] = "key" /\ f \in NextFile(w) /\ f \notin packed
  /\ Goto(w, "failed")
  /\ UNCHANGED <<dir, version, packed, listed, disk, tmp, todo, current>>

\* ... any other is written to a temporary file of a name of its own, ...
Write(w, f) ==
  /\ stage[w] = "key" /\ f \in NextFile(w) /\ f \in packed
  /\ current' = [current EXCEPT ![w] = f]
  /\ tmp' = [tmp EXCEPT ![w] = Partial]
  /\ Goto(w, "writing")
  /\ UNCHANGED <<dir, version, packed, listed, disk, todo>>

\* ... which may fail, ...
WriteFails(w) ==
  /\ stage[w] = "writing"
  /\ Goto(w, "failed")
  /\ UNCHANGED <<dir, version, packed, listed, disk, tmp, todo, current>>

Written(w) ==
  /\ stage[w] = "writing"
  /\ tmp' = [tmp EXCEPT ![w] = version]
  /\ Goto(w, "written")
  /\ UNCHANGED <<dir, version, packed, listed, disk, todo, current>>

\* Faulty: the old file is removed first, and the new one written in its place.
MutRename(w) ==
  /\ stage[w] = "written"
  /\ IF disk[current[w]] # Absent
       THEN disk' = [disk EXCEPT ![current[w]] = Absent] /\ UNCHANGED <<todo, stage>>
       ELSE /\ disk' = [disk EXCEPT ![current[w]] = tmp[w]]
            /\ todo' = [todo EXCEPT ![w] = @ \ {current[w]}]
            /\ Goto(w, IF current[w] = Listing THEN "load" ELSE "key")
  /\ UNCHANGED <<dir, version, packed, listed, tmp, current>>

\* Faulty: a file that is there already is in the way.
MutRenameOnce(w) ==
  /\ stage[w] = "written" /\ disk[current[w]] = Absent
  /\ disk' = [disk EXCEPT ![current[w]] = tmp[w]]
  /\ todo' = [todo EXCEPT ![w] = @ \ {current[w]}]
  /\ Goto(w, IF current[w] = Listing THEN "load" ELSE "key")
  /\ UNCHANGED <<dir, version, packed, listed, tmp, current>>

\* ... and moved into place, over one that is there already.
Rename(w) ==
  /\ stage[w] = "written"
  /\ disk' = [disk EXCEPT ![current[w]] = tmp[w]]
  /\ tmp' = [tmp EXCEPT ![w] = Absent]
  /\ todo' = [todo EXCEPT ![w] = @ \ {current[w]}]
  /\ Goto(w, IF current[w] = Listing THEN "load" ELSE "key")
  /\ UNCHANGED <<dir, version, packed, listed, current>>

\* The program is loaded, from the resources or from the source it was given,
\* unless it is not there.
Load(w) ==
  /\ stage[w] = "load"
  /\ Goto(w, "loaded") \/ Goto(w, "failed")
  /\ UNCHANGED <<dir, version, packed, listed, disk, tmp, todo, current>>

\* A worklet is terminated or its process killed, or it has ended.  What it
\* leaves under a temporary name is never looked at again.
Kill(w) ==
  /\ stage[w] # "none"
  /\ Goto(w, "none")
  /\ tmp' = [tmp EXCEPT ![w] = Absent]
  /\ todo' = [todo EXCEPT ![w] = {}]
  /\ UNCHANGED <<dir, version, packed, listed, disk, current>>

\* The application is updated, which ends its processes and clears the code
\* cache directory.
Update ==
  /\ version < MaxVersion
  /\ version' = version + 1
  /\ packed' \in SUBSET Files
  /\ listed' \in SUBSET Keys
  /\ disk' = [f \in Files |-> Absent]
  /\ tmp' = [w \in Worklets |-> Absent]
  /\ stage' = [w \in Worklets |-> "none"]
  /\ todo' = [w \in Worklets |-> {}]
  /\ UNCHANGED <<dir, current>>

-----------------------------------------------------------------------------

Extract(w) ==
  \/ Check(w) \/ WriteFails(w) \/ Written(w) \/ Rename(w) \/ Load(w)
  \/ \E f \in Files : ReadMissing(w, f) \/ Write(w, f)

Next ==
  \/ \E w \in Worklets : Extract(w) \/ Kill(w) \/ \E relative \in BOOLEAN : Start(w, relative)
  \/ Update

\* A worklet that runs goes on with what it does.
Fairness == \A w \in Worklets : WF_vars(Extract(w))

Spec == Init /\ [][Next]_vars

FairSpec == Spec /\ Fairness

-----------------------------------------------------------------------------
(* Properties *)

(***************************************************************************)
(* "The listing is extracted last, so that its presence means that every   *)
(* resource it lists has been" (worklet.js:130-131): in whole, and of this *)
(* version of the application, whoever extracted or was killed before.     *)
(***************************************************************************)
ListingVouches ==
  disk[Listing] # Absent =>
    disk[Listing] = version /\ \A k \in listed : disk[k] = version

(***************************************************************************)
(* A file is only ever seen whole, and one that is in place stays there,   *)
(* unchanged, while other worklets extract it again and programs read it,  *)
(* until an update ends them all (worklet.js:156-164).                     *)
(***************************************************************************)
FilesStay ==
  [][\A f \in Files :
       /\ disk'[f] # Partial
       /\ disk[f] # Absent /\ version' = version => disk'[f] = disk[f]]_vars

(***************************************************************************)
(* The program of a worklet that extracts does not run before everything   *)
(* its listing lists is in place: not when another worklet is half way,    *)
(* nor when a resource is missing or could not be written                  *)
(* (worklet.js:113-117, 148).                                              *)
(***************************************************************************)
RunsExtracted ==
  [][\A w \in Worklets :
       stage[w] = "check" \/ stage[w] = "written" =>
         (stage'[w] = "load" /\ Listing \in packed => \A k \in listed : disk'[k] = version)]_vars

(***************************************************************************)
(* A worklet that is not killed gets through: it never waits for another   *)
(* one, nor for what one that was killed has left behind.                  *)
(***************************************************************************)
StartEnds ==
  \A w \in Worklets :
    stage[w] = "check" ~> stage[w] \in {"loaded", "failed", "none"}

=============================================================================
