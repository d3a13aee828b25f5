--------------------------- MODULE RecordingStore ---------------------------
(***************************************************************************)
(* The directory of recordings (zero/app/recording.py, RecordingStore) and *)
(* those who use it at the same time: the worker that saves what it has    *)
(* recorded, a rename or delete request, which holds the controller's      *)
(* _meta_lock throughout, the lists and downloads that hold no lock, and a *)
(* process that may die between any two system calls.  The file system     *)
(* keeps the order of a process's calls.                                   *)
(***************************************************************************)
EXTENDS Naturals, FiniteSets

CONSTANTS
    Names, Absent,
    MaxRecordings,  \* bound: recordings made
    MaxCrashes,     \* bound: deaths of the process
    MaxFailures     \* bound: writes that fail

Recordings == [name : Names, data : Nat, whole : BOOLEAN]

ASSUME StoreAssumption == Absent \notin Recordings

VARIABLES
    files,      \* name -> what the file of that name holds, or Absent
    temps,      \* saver -> what its temporary file holds, or Absent
    saving,     \* saver -> how far its save() is
    request,    \* the rename that holds the lock, or no one
    active,     \* the controller's _active_kind and _active_name
    listing,    \* names a list_metadata still has to load, and how it goes
    recordings, crashes, failures,  \* counters
    kept        \* history: recordings published and not deleted on request

storeVars == <<files, temps, saving, request, active, listing, recordings, crashes, failures, kept>>

Savers == {"worker", "rename"}
NoOne == [step |-> "none"]
Idle == [kind |-> "none"]
Listing(names) == [left |-> names, failed |-> {}, removed |-> {}]

Content(name, data) == [name |-> name, data |-> data, whole |-> FALSE]
Exists(name) == files[name] # Absent
IsActive(name) == active.kind \in {"record", "playback"} /\ active.name = name
Locked == request # NoOne
PathFor(saver) == IF saver = "worker" THEN active.name ELSE request.new

-----------------------------------------------------------------------------
(* save(): a temporary file, its content, a link, and the end of the file *)

Move(saver, from, to) == saving[saver] = from /\ saving' = [saving EXCEPT ![saver] = to]

Written(recording) == [recording EXCEPT !.whole = TRUE]

WriteFile(saver) ==
    /\ Move(saver, "temporary", "written")
    /\ temps' = [temps EXCEPT ![saver] = Written(temps[saver])]
    /\ UNCHANGED <<files, request, active, listing, recordings, crashes, failures, kept>>

WriteFails(saver) ==
    /\ failures < MaxFailures
    /\ failures' = failures + 1
    /\ Move(saver, "temporary", "full")
    /\ UNCHANGED <<files, temps, request, active, listing, recordings, crashes, kept>>

\* Fault: the file is renamed over whatever has the name.
MayReplace(name) == TRUE

MayPublish(name) == ~Exists(name)

Publishable == "written"

Link(saver) ==
    LET path == PathFor(saver)
    IN  /\ saving[saver] = Publishable
        /\ IF MayPublish(path)
           THEN /\ Move(saver, Publishable, "linked")
                /\ files' = [files EXCEPT ![path] = temps[saver]]
                /\ kept' = kept \cup {temps[saver].data}
           ELSE Move(saver, Publishable, "taken") /\ UNCHANGED <<files, kept>>
        /\ UNCHANGED <<temps, request, active, listing, recordings, crashes, failures>>

UnlinkTemporary(saver) == temps' = [temps EXCEPT ![saver] = Absent]

\* The "finally" of save(), however the save went.
SaveEnds(saver) ==
    /\ saving[saver] \in {"linked", "taken", "full"}
    /\ UnlinkTemporary(saver)
    /\ saving' = [saving EXCEPT ![saver] = IF @ = "linked" THEN "saved" ELSE "failed"]
    /\ UNCHANGED <<files, request, active, listing, recordings, crashes, failures, kept>>

Create(saver, content) ==
    /\ Move(saver, "idle", "temporary")
    /\ temps' = [temps EXCEPT ![saver] = content]

-----------------------------------------------------------------------------
(* The sessions: start() looks for the name, stop() saves under it. *)

MayBegin == ~Locked /\ active = Idle

BeginRecord(name) ==
    /\ MayBegin
    /\ recordings < MaxRecordings
    /\ recordings' = recordings + 1
    /\ active' = [kind |-> "record", name |-> name, confirmed |-> FALSE]
    /\ UNCHANGED <<files, temps, saving, request, listing, crashes, failures, kept>>

NameIsFree ==
    /\ active.kind = "record" /\ ~active.confirmed
    /\ active' = IF Exists(active.name) THEN Idle ELSE [active EXCEPT !.confirmed = TRUE]
    /\ UNCHANGED <<files, temps, saving, request, listing, recordings, crashes, failures, kept>>

StopRecording ==
    /\ active.kind = "record" /\ active.confirmed
    /\ Create("worker", Content(active.name, recordings))
    /\ UNCHANGED <<files, request, active, listing, recordings, crashes, failures, kept>>

\* Saved, or abandoned: a session that failed saves nothing.
RecordingEnds ==
    /\ active.kind = "record"
    /\ saving["worker"] \in {"idle", "saved", "failed"}
    /\ saving' = [saving EXCEPT !["worker"] = "idle"]
    /\ active' = Idle
    /\ UNCHANGED <<files, temps, request, listing, recordings, crashes, failures, kept>>

\* start_playback has loaded the recording before it claims the controller: the
\* file may be gone by now.
BeginPlayback(name) ==
    /\ MayBegin
    /\ active' = [kind |-> "playback", name |-> name]
    /\ UNCHANGED <<files, temps, saving, request, listing, recordings, crashes, failures, kept>>

PlaybackEnds ==
    /\ active.kind = "playback"
    /\ active' = Idle
    /\ UNCHANGED <<files, temps, saving, request, listing, recordings, crashes, failures, kept>>

-----------------------------------------------------------------------------
(* rename_recording and delete_recording *)

Rename(old, new) ==
    /\ ~Locked /\ ~IsActive(old)
    /\ old # new
    /\ request' = [step |-> "load", old |-> old, new |-> new]
    /\ UNCHANGED <<files, temps, saving, active, listing, recordings, crashes, failures, kept>>

NewName == request.new

LoadOld ==
    /\ request.step = "load"
    /\ IF Exists(request.old)
       THEN /\ Create("rename", Content(NewName, files[request.old].data))
            /\ request' = [request EXCEPT !.step = "save"]
       ELSE request' = NoOne /\ UNCHANGED <<temps, saving>>
    /\ UNCHANGED <<files, active, listing, recordings, crashes, failures, kept>>

RemoveFile(name) ==
    /\ files' = [files EXCEPT ![name] = Absent]
    /\ listing' = [listing EXCEPT !.removed = @ \cup {name}]

\* Fault: the old file goes, however the save of the new one went.
AnyOutcome == {"saved", "failed"}

Success == {"saved"}

DeleteOld ==
    /\ request.step = "save"
    /\ saving["rename"] \in {"saved", "failed"}
    /\ saving' = [saving EXCEPT !["rename"] = "idle"]
    /\ request' = NoOne
    /\ IF saving["rename"] \in Success THEN RemoveFile(request.old) ELSE UNCHANGED <<files, listing>>
    /\ UNCHANGED <<temps, active, recordings, crashes, failures, kept>>

Delete(name) ==
    /\ ~Locked /\ ~IsActive(name)
    /\ Exists(name)
    /\ RemoveFile(name)
    /\ kept' = kept \ {files[name].data}
    /\ UNCHANGED <<temps, saving, request, active, recordings, crashes, failures>>

-----------------------------------------------------------------------------
(* list_metadata, and the death of the process *)

Glob ==
    /\ listing.left = {}
    /\ listing' = Listing({name \in Names : Exists(name)})
    /\ UNCHANGED <<files, temps, saving, request, active, recordings, crashes, failures, kept>>

Loads(name) == Exists(name) /\ files[name].whole /\ files[name].name = name

LoadListed ==
    /\ \E name \in listing.left :
          listing' = IF Loads(name) THEN [listing EXCEPT !.left = @ \ {name}]
                                    ELSE [listing EXCEPT !.left = {}, !.failed = {name}]
    /\ UNCHANGED <<files, temps, saving, request, active, recordings, crashes, failures, kept>>

\* What has been linked stays; a temporary file is left under its own name.
Crash ==
    /\ crashes < MaxCrashes
    /\ crashes' = crashes + 1
    /\ temps' = [saver \in Savers |-> Absent] /\ saving' = [saver \in Savers |-> "idle"]
    /\ request' = NoOne /\ active' = Idle /\ listing' = Listing({})
    /\ UNCHANGED <<files, recordings, failures, kept>>

StoreInit ==
    /\ files = [name \in Names |-> Absent]
    /\ temps = [saver \in Savers |-> Absent] /\ saving = [saver \in Savers |-> "idle"]
    /\ request = NoOne /\ active = Idle /\ listing = Listing({})
    /\ recordings = 0 /\ crashes = 0 /\ failures = 0 /\ kept = {}

StoreNext ==
    \/ \E saver \in Savers : WriteFile(saver) \/ WriteFails(saver) \/ Link(saver) \/ SaveEnds(saver)
    \/ \E name \in Names : BeginRecord(name) \/ BeginPlayback(name) \/ Delete(name)
    \/ \E old, new \in Names : Rename(old, new)
    \/ NameIsFree \/ StopRecording \/ RecordingEnds \/ PlaybackEnds
    \/ LoadOld \/ DeleteOld \/ Glob \/ LoadListed \/ Crash

StoreSpec == StoreInit /\ [][StoreNext]_storeVars

-----------------------------------------------------------------------------
(* Properties. *)

\* Every published file is whole and can be loaded under its own name, at any
\* moment of any save or rename, and after a crash (docs/recording-format.md,
\* "Store atomically").
StoreTypeOK == \A name \in Names : Exists(name) => Loads(name)

\* A published recording is never replaced by another one ("published
\* atomically without clobbering").
NoClobber == [][\A name \in Names : Exists(name) => files'[name] \in {files[name], Absent}]_storeVars

\* No recording is lost but by a request to delete it: not by a rename that
\* fails at any step, nor by a crash in it.
NothingLost == \A data \in kept : \E name \in Names : Exists(name) /\ files[name].data = data

\* A save that fails leaves nothing behind.
NoLitter == \A saver \in Savers : saving[saver] \in {"idle", "saved", "failed"} => temps[saver] = Absent

\* The recording being played is neither renamed nor deleted (README.md,
\* "both reject the recording currently being recorded or played").
PlayedIsKept ==
    [][active.kind = "playback" /\ active' = active /\ Exists(active.name)
          => files'[active.name] = files[active.name]]_storeVars

\* A list fails only at a recording that was removed while it was made
\* (list_metadata loads without the lock).
ListFailsOnRemoval == listing.failed \subseteq listing.removed

\* At every moment of every save and rename, and after a crash in any of them:
\* what is published is whole and nobody's recording has gone.
StoreIsSound == StoreTypeOK /\ NothingLost /\ NoLitter /\ ListFailsOnRemoval

\* What is published, and what is played, stays as it is until it is deleted.
FilesAreKept == NoClobber /\ PlayedIsKept

=============================================================================
