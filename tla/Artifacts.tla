----------------------------- MODULE Artifacts ------------------------------
(***************************************************************************)
(* The artifact store (api/jobs/artifacts.py): the write protocol of       *)
(* write_artifact, one system call at a time, against a process that can   *)
(* die, a machine that can lose power and calls that can fail; and what    *)
(* serving and listing take for a complete artifact.                       *)
(*                                                                         *)
(* The file system is external.  It is taken to be a journalling one:      *)
(* changes of directories reach the disk in the order they were made, a    *)
(* new directory's entry in its parent included (the root is not synced by *)
(* the code), file contents at any time, and fsync waits for the contents  *)
(* of its file or for all changes made to its directory so far.            *)
(***************************************************************************)
EXTENDS Naturals, SequencesExt

CONSTANTS Jobs,   \* the ids under which artifacts are written
          NoJob   \* nothing is being written

ASSUME NoJobAssumption == NoJob \notin Jobs

Files == {"audio", "sidecar"}  \* audio.wav and sidecar.json

(* A directory holds Itself once it exists, and the files by their         *)
(* temporary or final names.                                               *)
Itself == <<"itself", "dir">>
Tmp(f) == <<"tmp", f>>
Final(f) == <<"final", f>>

VARIABLES images,  \* [Jobs -> Seq of sets of names]: the job directory, change by change
          kept,    \* [Jobs -> Nat]: how many of its images are on disk
          data,    \* [Jobs -> [Files -> "none", "part" or "whole"]]: contents
          safe,    \* [Jobs -> SUBSET Files]: contents that are on disk
          writing, \* the job whose write_artifact is running
          at,      \* the call of WriteProgram it comes to next
          outcome  \* [Jobs -> "none", "begun", "returned" or "raised"]: its write_artifact

fsVars == <<images, kept, data, safe>>
vars == <<fsVars, writing, at, outcome>>

Names(j) == Last(images[j])

Init == /\ images = [j \in Jobs |-> <<{}>>]
        /\ kept = [j \in Jobs |-> 1]
        /\ data = [j \in Jobs |-> [f \in Files |-> "none"]]
        /\ safe = [j \in Jobs |-> {}]
        /\ writing = NoJob
        /\ at = 0
        /\ outcome = [j \in Jobs |-> "none"]
-----------------------------------------------------------------------------
(* Slip: the file is renamed before its contents are on disk. *)
PutUnsynced(f) == <<<<"open", f>>, <<"write", f>>, <<"replace", f>>>>

(* _atomic_write_bytes. *)
Put(f) == <<<<"open", f>>, <<"write", f>>, <<"fsync", f>>, <<"replace", f>>>>

(* Slip: the sidecar goes first. *)
ProgramSidecarFirst ==
  <<<<"mkdir", "dir">>>> \o Put("sidecar") \o Put("audio") \o <<<<"fsync_dir", "dir">>>>

(* Slip: the directory is not synced. *)
ProgramNoDirSync == <<<<"mkdir", "dir">>>> \o Put("audio") \o Put("sidecar")

(* The calls of write_artifact that change the disk.  Everything that can  *)
(* refuse the job (its id, the containment of its directory, a body that   *)
(* is no WAV) comes before the first of them.                              *)
WriteProgram ==
  <<<<"mkdir", "dir">>>> \o Put("audio") \o Put("sidecar") \o <<<<"fsync_dir", "dir">>>>
-----------------------------------------------------------------------------
Becomes(j, names) == images' = [images EXCEPT ![j] = Append(@, names)]

Mkdir(j) == /\ Becomes(j, {Itself})
            /\ UNCHANGED <<kept, data, safe>>

OpenTmp(j, f) == /\ Becomes(j, Names(j) \cup {Tmp(f)})
                 /\ UNCHANGED <<kept, data, safe>>

Write(j, f) == /\ data' = [data EXCEPT ![j][f] = "whole"]
               /\ UNCHANGED <<images, kept, safe>>

Fsync(j, f) == /\ safe' = [safe EXCEPT ![j] = @ \cup {f}]
               /\ UNCHANGED <<images, kept, data>>

Replace(j, f) == /\ Becomes(j, (Names(j) \ {Tmp(f)}) \cup {Final(f)})
                 /\ UNCHANGED <<kept, data, safe>>

FsyncDir(j) == /\ kept' = [kept EXCEPT ![j] = Len(images[j])]
               /\ UNCHANGED <<images, data, safe>>

Call(j, op, f) == \/ op = "mkdir"     /\ Mkdir(j)
                  \/ op = "open"      /\ OpenTmp(j, f)
                  \/ op = "write"     /\ Write(j, f)
                  \/ op = "fsync"     /\ Fsync(j, f)
                  \/ op = "replace"   /\ Replace(j, f)
                  \/ op = "fsync_dir" /\ FsyncDir(j)

(* The runner persists one result at a time, under an id never used        *)
(* before, so the exclusive mkdir finds nothing.                           *)
WriteBegins(j) == /\ writing = NoJob
                  /\ outcome[j] = "none"
                  /\ outcome' = [outcome EXCEPT ![j] = "begun"]
                  /\ writing' = j
                  /\ at' = 1
                  /\ UNCHANGED fsVars

WriteCalls == /\ writing # NoJob
              /\ at \in DOMAIN WriteProgram
              /\ Call(writing, WriteProgram[at][1], WriteProgram[at][2])
              /\ at' = at + 1
              /\ UNCHANGED <<writing, outcome>>

Leaves(o) == /\ outcome' = [outcome EXCEPT ![writing] = o]
             /\ writing' = NoJob
             /\ at' = 0

WriteReturns == /\ writing # NoJob
                /\ at = Len(WriteProgram) + 1
                /\ Leaves("returned")
                /\ UNCHANGED fsVars

(* OSError: nothing is cleaned up, and the runner fails the job.  A write  *)
(* that failed may have written a part.                                    *)
WriteRaises == /\ writing # NoJob
               /\ at \in DOMAIN WriteProgram
               /\ IF WriteProgram[at][1] = "write"
                  THEN \E d \in {"none", "part"} :
                         data' = [data EXCEPT ![writing][WriteProgram[at][2]] = d]
                  ELSE UNCHANGED data
               /\ Leaves("raised")
               /\ UNCHANGED <<images, kept, safe>>
-----------------------------------------------------------------------------
(* The operating system writes back what it likes. *)
Writeback(j) == \/ /\ kept[j] < Len(images[j])
                   /\ kept' = [kept EXCEPT ![j] = @ + 1]
                   /\ UNCHANGED <<images, data, safe, writing, at, outcome>>
                \/ /\ \E f \in Files \ safe[j] : /\ data[j][f] = "whole"
                                                 /\ safe' = [safe EXCEPT ![j] = @ \cup {f}]
                   /\ UNCHANGED <<images, kept, data, writing, at, outcome>>

(* The process dies in the middle of a write, and is started again. *)
Crash == /\ writing # NoJob
         /\ writing' = NoJob
         /\ at' = 0
         /\ IF at \in DOMAIN WriteProgram /\ WriteProgram[at][1] = "write"
            THEN \E d \in {"none", "part"} :
                   data' = [data EXCEPT ![writing][WriteProgram[at][2]] = d]
            ELSE UNCHANGED data
         /\ UNCHANGED <<images, kept, safe, outcome>>

(* The machine loses power: only what was on disk is left. *)
PowerLoss == /\ images' = [j \in Jobs |-> SubSeq(images[j], 1, kept[j])]
             /\ data' = [j \in Jobs |-> [f \in Files |->
                           IF f \in safe[j] \/ data[j][f] = "none" THEN data[j][f] ELSE "part"]]
             /\ writing' = NoJob
             /\ at' = 0
             /\ UNCHANGED <<kept, safe, outcome>>
-----------------------------------------------------------------------------
Next == \/ \E j \in Jobs : WriteBegins(j) \/ Writeback(j)
        \/ WriteCalls
        \/ WriteReturns
        \/ WriteRaises
        \/ Crash
        \/ PowerLoss

Spec == Init /\ [][Next]_vars
-----------------------------------------------------------------------------
(* open_member, for whichever of the two is asked for: both open as        *)
(* regular files.  scan_listing lists by the same test.                    *)
Complete(j) == \A f \in Files : Final(f) \in Names(j)

(* The types of a directory's images and of a file's contents; a call is   *)
(* under way just when a job is being written.                             *)
Image == SUBSET ({Itself} \cup {Tmp(f) : f \in Files} \cup {Final(f) : f \in Files})

TypeOK == /\ images \in [Jobs -> Seq(Image)]
          /\ kept \in [Jobs -> Nat]
          /\ \A j \in Jobs : kept[j] \in 1 .. Len(images[j])
          /\ data \in [Jobs -> [Files -> {"none", "part", "whole"}]]
          /\ safe \in [Jobs -> SUBSET Files]
          /\ writing \in Jobs \cup {NoJob}
          /\ at \in 0 .. Len(WriteProgram) + 1
          /\ at = 0 <=> writing = NoJob
          /\ outcome \in [Jobs -> {"none", "begun", "returned", "raised"}]

(* What is served or listed is whole: no crash, power loss or failed call  *)
(* leaves a truncated file under its final name.                           *)
CompleteIsWhole == \A j \in Jobs : Complete(j) => \A f \in Files : data[j][f] = "whole"

(* "A crash never leaves a sidecar claiming success for a missing audio    *)
(* file".                                                                  *)
SidecarHasAudio == \A j \in Jobs : Final("sidecar") \in Names(j) => /\ Final("audio") \in Names(j)
                                                                    /\ data[j]["audio"] = "whole"

(* What write_artifact returned for, hence every job reported succeeded,   *)
(* is served for good, whatever happens to process and machine.            *)
ReturnedIsKept == \A j \in Jobs : outcome[j] = "returned" => Complete(j)

(* What open_member and scan_listing find of a job. *)
Shown(j) == IF ~Complete(j) THEN "nothing"
            ELSE IF \A f \in Files : data[j][f] = "whole" THEN "whole" ELSE "part"

Store == INSTANCE ArtifactStore WITH shown <- [j \in Jobs |-> Shown(j)]

(* To its readers the ten calls of write_artifact are one: an artifact     *)
(* appears whole, while it is written and at no other time; no failed call *)
(* or crash takes it away or changes it, and a loss of power takes only    *)
(* what write_artifact has not returned for.                               *)
ImplementsStore == Store!Spec
=============================================================================
