--------------------------- MODULE ResourcesProofs ---------------------------
(***************************************************************************)
(* What Resources guarantees for any number of worklets, resources and     *)
(* updates, proved: the listing vouches for what it lists, files in place  *)
(* stay as they are, and no program runs before its resources are there.   *)
(***************************************************************************)
EXTENDS Resources, TLAPS

USE ResourcesAssumption DEF Absent, Partial

-----------------------------------------------------------------------------
(* The inductive invariant *)

\* What is in place is whole and of this version.
DiskInv == \A f \in Files : disk[f] \in {Absent, version}

\* The stages of a worklet that extracts.
Extracting == {"key", "writing", "written"}

(***************************************************************************)
(* What a worklet knows as it extracts: the keys that it is through with   *)
(* are in place, what it has written is whole, and it writes the listing   *)
(* only when no key is left.                                               *)
(***************************************************************************)
Knows(w) ==
  /\ stage[w] \in Extracting => \A k \in listed : k \in todo[w] \/ disk[k] = version
  /\ stage[w] = "written" => tmp[w] = version
  /\ stage[w] \in {"writing", "written"} /\ current[w] = Listing => todo[w] = {}

IInv == TypeOK /\ DiskInv /\ (\A w \in Worklets : Knows(w)) /\ ListingVouches

-----------------------------------------------------------------------------

\* An application that was just installed has nothing on disk.
LEMMA InitHolds == Init => IInv
BY SMT DEF Init, IInv, TypeOK, DiskInv, Knows, Extracting, ListingVouches, Files, Contents, Stage

\* Every step keeps the types.
LEMMA TypeStep == TypeOK /\ [Next]_vars => TypeOK'
<1> SUFFICES ASSUME TypeOK, [Next]_vars PROVE TypeOK'
  OBVIOUS
<1> USE DEF TypeOK, Files, Contents, Stage
<1>1. ASSUME NEW w \in Worklets, Extract(w) PROVE TypeOK'
  <2>1. CASE Check(w)
    BY <2>1 DEF Check, Goto
  <2>2. CASE WriteFails(w)
    BY <2>2 DEF WriteFails, Goto
  <2>3. CASE Written(w)
    BY <2>3 DEF Written, Goto
  <2>4. CASE Rename(w)
    BY <2>4 DEF Rename, Goto
  <2>5. CASE Load(w)
    BY <2>5 DEF Load, Goto
  <2>6. ASSUME NEW f \in Files, ReadMissing(w, f) PROVE TypeOK'
    BY <2>6 DEF ReadMissing, Goto
  <2>7. ASSUME NEW f \in Files, Write(w, f) PROVE TypeOK'
    BY <2>7 DEF Write, Goto
  <2>8. QED
    BY <1>1, <2>1, <2>2, <2>3, <2>4, <2>5, <2>6, <2>7 DEF Extract
<1>2. ASSUME NEW w \in Worklets, Kill(w) PROVE TypeOK'
  BY <1>2 DEF Kill, Goto
<1>3. ASSUME NEW w \in Worklets, NEW relative \in BOOLEAN, Start(w, relative) PROVE TypeOK'
  BY <1>3 DEF Start, Goto
<1>4. CASE Update
  BY <1>4 DEF Update
<1>5. CASE UNCHANGED vars
  BY <1>5 DEF vars
<1>6. QED
  BY <1>1, <1>2, <1>3, <1>4, <1>5 DEF Next

-----------------------------------------------------------------------------
(* Steps that move nothing into place *)

(***************************************************************************)
(* A step of w that leaves the disk and the application alone keeps the    *)
(* invariant if it keeps what w itself knows.                              *)
(***************************************************************************)
LEMMA OwnStep ==
  ASSUME IInv, NEW w \in Worklets,
         UNCHANGED <<disk, version, listed>>, Knows(w)',
         \A v \in Worklets \ {w} :
           stage'[v] = stage[v] /\ todo'[v] = todo[v] /\ tmp'[v] = tmp[v] /\ current'[v] = current[v]
  PROVE  DiskInv' /\ (\A v \in Worklets : Knows(v)') /\ ListingVouches'
<1>1. DiskInv' /\ ListingVouches'
  BY DEF IInv, DiskInv, ListingVouches
<1>2. ASSUME NEW v \in Worklets \ {w} PROVE Knows(v)'
  BY <1>2 DEF IInv, Knows, Extracting
<1>3. QED
  BY <1>1, <1>2

\* Moving a file into place keeps the invariant: it is whole, and if it is the
\* listing then all that it lists is there.
LEMMA RenameStep ==
  ASSUME IInv, NEW w \in Worklets, Rename(w)
  PROVE  DiskInv' /\ (\A v \in Worklets : Knows(v)') /\ ListingVouches'
<1> USE DEF IInv, TypeOK, Files
<1>0. Knows(w) /\ stage[w] = "written"
  BY DEF Rename
<1>1. /\ current[w] \in Files
      /\ disk' = [disk EXCEPT ![current[w]] = version]
      /\ UNCHANGED <<version, listed>>
      /\ version # Absent
  BY <1>0 DEF Rename, Knows
<1>2. \A f \in Files : disk'[f] = version \/ disk'[f] = disk[f]
  BY <1>1
<1>3. DiskInv'
  BY <1>1, <1>2 DEF DiskInv
<1>4. \A k \in listed : disk[k] = version => disk'[k] = version
  BY <1>1, <1>2
<1>5. \A k \in listed : k \in todo[w] \/ disk[k] = version
  BY DEF Rename, Knows, Extracting
<1>6. ListingVouches'
  <2>1. CASE current[w] = Listing
    <3>1. todo[w] = {}
      BY <2>1 DEF Rename, Knows
    <3>2. QED
      BY <1>1, <1>4, <1>5, <2>1, <3>1 DEF ListingVouches
  <2>2. CASE current[w] # Listing
    BY <1>1, <1>4, <2>2 DEF ListingVouches
  <2>3. QED
    BY <2>1, <2>2
<1>7. Knows(w)'
  <2>1. todo'[w] = todo[w] \ {current[w]} /\ stage'[w] \in {"load", "key"}
    BY DEF Rename, Goto
  <2>2. \A k \in listed : k \in todo'[w] \/ disk'[k] = version
    BY <1>1, <1>4, <1>5, <2>1
  <2>3. QED
    BY <1>1, <2>1, <2>2 DEF Knows, Extracting
<1>8. ASSUME NEW v \in Worklets \ {w} PROVE Knows(v)'
  <2>1. stage'[v] = stage[v] /\ todo'[v] = todo[v] /\ tmp'[v] = tmp[v] /\ current'[v] = current[v]
    BY DEF Rename, Goto
  <2>2. QED
    BY <1>1, <1>4, <2>1 DEF Knows, Extracting
<1>9. QED
  BY <1>3, <1>6, <1>7, <1>8

\* Every step keeps the invariant.
LEMMA NextHolds == IInv /\ [Next]_vars => IInv'
<1> SUFFICES ASSUME IInv, [Next]_vars
             PROVE  DiskInv' /\ (\A w \in Worklets : Knows(w)') /\ ListingVouches'
  BY TypeStep DEF IInv
<1> DEFINE Goal == DiskInv' /\ (\A v \in Worklets : Knows(v)') /\ ListingVouches'
<1> TypeOK
  BY DEF IInv
<1>1. ASSUME NEW w \in Worklets, Extract(w) PROVE Goal
  <2> Knows(w)
    BY DEF IInv
  <2> USE DEF TypeOK, Goto
  <2>1. CASE Check(w)
    <3>1. Knows(w)'
      BY <2>1 DEF Check, Knows, Extracting
    <3>2. QED
      BY <2>1, <3>1, OwnStep DEF Check
  <2>2. CASE WriteFails(w)
    <3>1. Knows(w)'
      BY <2>2 DEF WriteFails, Knows, Extracting
    <3>2. QED
      BY <2>2, <3>1, OwnStep DEF WriteFails
  <2>3. CASE Written(w)
    <3>1. Knows(w)'
      BY <2>3 DEF Written, Knows, Extracting
    <3>2. QED
      BY <2>3, <3>1, OwnStep DEF Written
  <2>4. CASE Rename(w)
    BY <2>4, RenameStep
  <2>5. CASE Load(w)
    <3>1. Knows(w)'
      BY <2>5 DEF Load, Knows, Extracting
    <3>2. QED
      BY <2>5, <3>1, OwnStep DEF Load
  <2>6. ASSUME NEW f \in Files, ReadMissing(w, f) PROVE Goal
    <3>1. Knows(w)'
      BY <2>6 DEF ReadMissing, Knows, Extracting
    <3>2. QED
      BY <2>6, <3>1, OwnStep DEF ReadMissing
  <2>7. ASSUME NEW f \in Files, Write(w, f) PROVE Goal
    <3>1. Knows(w)'
      BY <2>7 DEF Write, NextFile, Knows, Extracting
    <3>2. QED
      BY <2>7, <3>1, OwnStep DEF Write
  <2>8. QED
    BY <1>1, <2>1, <2>2, <2>3, <2>4, <2>5, <2>6, <2>7 DEF Extract
<1>2. ASSUME NEW w \in Worklets, Kill(w) PROVE Goal
  <2>1. Knows(w)'
    BY <1>2 DEF Kill, Goto, Knows, Extracting, TypeOK
  <2>2. QED
    BY <1>2, <2>1, OwnStep DEF Kill, Goto, TypeOK
<1>3. ASSUME NEW w \in Worklets, NEW relative \in BOOLEAN, Start(w, relative) PROVE Goal
  <2>1. Knows(w)'
    BY <1>3 DEF Start, Goto, Knows, Extracting, TypeOK
  <2>2. QED
    BY <1>3, <2>1, OwnStep DEF Start, Goto, TypeOK
<1>4. CASE Update
  BY <1>4 DEF Update, DiskInv, Knows, Extracting, ListingVouches, TypeOK, Files
<1>5. CASE UNCHANGED vars
  BY <1>5 DEF vars, IInv, DiskInv, Knows, ListingVouches
<1>6. QED
  BY <1>1, <1>2, <1>3, <1>4, <1>5 DEF Next

\* The invariant holds in every reachable state.
LEMMA Invariance == Spec => []IInv
<1>1. QED
  BY InitHolds, NextHolds, PTL DEF Spec

-----------------------------------------------------------------------------

\* The variables keep their types.
THEOREM ResourceTypes == Spec => []TypeOK
<1>1. IInv => TypeOK
  BY DEF IInv
<1>2. QED
  BY <1>1, Invariance, PTL

\* The presence of the listing means that every resource it lists is in place,
\* whole and of this version (worklet.js:130-131).
THEOREM ListingIsLast == Spec => []ListingVouches
<1>1. IInv => ListingVouches
  BY DEF IInv
<1>2. QED
  BY <1>1, Invariance, PTL

\* Files appear whole, and those in place are only ever replaced by their equals,
\* until an update (worklet.js:156-164).
THEOREM FilesAreStable == Spec => FilesStay
<1> DEFINE Stays == \A f \in Files :
                      /\ disk'[f] # Partial
                      /\ disk[f] # Absent /\ version' = version => disk'[f] = disk[f]
<1>1. IInv /\ IInv' /\ [Next]_vars => [Stays]_vars
  <2> SUFFICES ASSUME IInv, IInv', Next PROVE Stays
    BY DEF vars
  <2> SUFFICES ASSUME NEW f \in Files
               PROVE  /\ disk'[f] # Partial
                      /\ disk[f] # Absent /\ version' = version => disk'[f] = disk[f]
    OBVIOUS
  <2>1. disk'[f] \in {Absent, version'} /\ version' \in Nat /\ disk[f] \in {Absent, version}
    BY DEF IInv, DiskInv, TypeOK
  <2>2. disk'[f] = Absent /\ version' = version => disk[f] = Absent
    <3>1. ASSUME NEW w \in Worklets, Rename(w) PROVE disk[f] = Absent \/ disk'[f] # Absent
      BY <3>1 DEF Rename, IInv, TypeOK, Knows
    <3>2. ASSUME NEW w \in Worklets, Extract(w) \/ Kill(w), ~Rename(w) PROVE disk' = disk
      BY <3>2 DEF Extract, Check, WriteFails, Written, Load, ReadMissing, Write, Kill
    <3>3. ASSUME NEW w \in Worklets, NEW relative \in BOOLEAN, Start(w, relative)
          PROVE  disk' = disk
      BY <3>3 DEF Start
    <3>4. ASSUME Update PROVE version' # version
      BY <3>4 DEF Update, IInv, TypeOK
    <3>5. QED
      BY <3>1, <3>2, <3>3, <3>4 DEF Next, Extract
  <2>3. QED
    BY <2>1, <2>2
<1>2. QED
  BY <1>1, Invariance, PTL DEF Spec, FilesStay

\* No worklet that extracts goes on to its program before everything that is
\* listed is in place (worklet.js:113-117, 148).
THEOREM ProgramsFindResources == Spec => RunsExtracted
<1> DEFINE Runs(w) ==
      stage[w] = "check" \/ stage[w] = "written" =>
        (stage'[w] = "load" /\ Listing \in packed => \A k \in listed : disk'[k] = version)
<1>1. IInv /\ IInv' /\ [Next]_vars => [\A w \in Worklets : Runs(w)]_vars
  <2> SUFFICES ASSUME IInv, IInv', Next,
                      NEW w \in Worklets,
                      stage[w] \in {"check", "written"}, stage'[w] = "load", Listing \in packed,
                      NEW k \in listed
               PROVE  disk'[k] = version
    BY DEF vars
  <2> USE DEF IInv, TypeOK, Goto, Files
  <2>1. Check(w) \/ Rename(w)
    <3>1. ~Update /\ ~Kill(w)
      BY DEF Update, Kill
    <3>2. ASSUME NEW v \in Worklets, v # w PROVE ~Extract(v) /\ ~Kill(v)
      BY <3>2 DEF Extract, Check, WriteFails, Written, Rename, Load, ReadMissing, Write, Kill
    <3>3. ASSUME NEW v \in Worklets, NEW relative \in BOOLEAN PROVE ~Start(v, relative)
      BY DEF Start
    <3>4. ~WriteFails(w) /\ ~Written(w) /\ ~Load(w)
          /\ \A f \in Files : ~ReadMissing(w, f) /\ ~Write(w, f)
      BY DEF WriteFails, Written, Load, ReadMissing, Write
    <3>5. QED
      BY <3>1, <3>2, <3>3, <3>4 DEF Next, Extract
  <2>2. CASE Check(w)
    <3>1. disk[Listing] # Absent /\ disk' = disk
      BY <2>2 DEF Check
    <3>2. QED
      BY <3>1 DEF ListingVouches
  <2>3. CASE Rename(w)
    <3>1. current[w] = Listing
      BY <2>3 DEF Rename
    <3>2. disk[k] = version /\ k # Listing
      BY <2>3, <3>1 DEF Rename, Knows, Extracting
    <3>3. QED
      BY <2>3, <3>1, <3>2 DEF Rename
  <2>4. QED
    BY <2>1, <2>2, <2>3
<1>2. QED
  BY <1>1, Invariance, PTL DEF Spec, RunsExtracted

=============================================================================
